---- MODULE Spec2Model ----
(***************************************************************************)
(* A model of danielmorandini/booster: the packet codec                    *)
(* (network/packet), the control-plane connection lifecycle (booster:      *)
(* Wire, HandleConnect, HandleDisconnect), the heartbeat ping-pong         *)
(* (booster: HandleHeartbeat and the heartbeat timer armed by Wire), the   *)
(* tunnel events (HandleTunnel, UpdateRoot, ServeStatus), the proxy's      *)
(* Socks5.Connect, the dispatch of packets (Handle), ServeInspect, Run     *)
(* and Close, ListenAndServe, and the reconnect loop of the node package.  *)
(*                                                                         *)
(* The specifications of the module:                                       *)
(*   SpecPacket    build a packet, encode it, decode the bytes             *)
(*   SpecDamage    SpecPacket, with bytes damaged before they are decoded  *)
(*   SpecRepeat    SpecPacket, with streams that carry an id twice         *)
(*   SpecNet       one booster node serving Connect and Disconnect         *)
(*   SpecRewire    SpecNet, started after a peer was disconnected          *)
(*   SpecHB        one control link, both ends, under a discrete clock     *)
(*   SpecPair      two nodes that run Connect against each other           *)
(*   SpecTunnel    tunnel events applied to the local and the remote node  *)
(*   SpecStatus    ServeStatus forwarding the proxy's events               *)
(*   SpecSocks     Socks5.Connect serving the clients of the proxy         *)
(*   SpecHandle    Handle dispatching the packets of one connection        *)
(*   SpecInspect   ServeInspect and the subscriptions it makes             *)
(*   SpecRoot      UpdateRoot and its subscription on the bus              *)
(*   SpecRun       Run, run and its four subroutines, Close and Restart    *)
(*   SpecRunFair   SpecRun with the goroutines scheduled fairly            *)
(*   SpecReconnect the loop reading the ids the tracer discovers           *)
(*   SpecListen    ListenAndServe accepting connections under run          *)
(* Each leaves the variables of the other parts at their initial value.    *)
(***************************************************************************)
EXTENDS Integers, Sequences, FiniteSets, TLC

VARIABLES
    \* ---- packet codec ----
    tagset,     \* the TagSet shared by Encoder and Decoder
    pkt,        \* Packet.modules of the packet under construction
    want,       \* history: what the AddModule calls so far asked to store
    lookup,     \* result of a Packet.Module(id) call on the packet as it is
    wire,       \* the bytes the Encoder wrote
    decoded,    \* result of Decoder.Decode on wire
    ppc,        \* "build" | "encoded" | "decoded" | "damaged" | "checked"
                \* | "repeated" | "read"
    repeated,   \* history: the module a stream carries twice
    \* ---- network of one booster node ----
    conns,      \* the *Conn objects created so far, with their RemoteNode
    Conns,      \* Network.Conns: peer id -> *Conn (0: no entry)
    reqs,       \* the Connect/Disconnect requests and tracer revivals
    \* ---- one control link under a clock ----
    now,        \* the time, in ticks
    ends,       \* the two ends of the link: the Conn and its Handle loop
    htimer,     \* the HeartbeatTimer of the end that ran Wire
    net,        \* the heartbeats in flight to each end
    \* ---- two booster nodes that connect to each other ----
    links,      \* the control connections dialed, both sides of each
    pnet,       \* Network.Conns of each node: peer -> link (0: no entry)
    \* ---- tunnel sets of the local and the remote node ----
    tunnels,    \* Node.tunnels of each node: target -> copies, confirmed
    tpub,       \* the node updates published to the subscribed peers
    tconn,      \* the *Conn the TunnelEvent packets arrive on is open
    tlast,      \* history: the last event handled and how it ended
    tsteps,     \* history: the number of events handled
    tseen,      \* history: the event each sequence id was applied with
    \* ---- ServeStatus on one connection ----
    spc,        \* where ServeStatus is: "idle", "start", "subscribed", ...
    sindex,     \* ServeStatus's variable index
    sreal,      \* the index Proxy.Notify gave the subscription (-1: none)
    subs,       \* the live subscriptions of the topic, by index
    sconn,      \* the connection: open, and whether its peer is reachable
    published,  \* history: the events published since the subscription
    sent,       \* the packets sent on the connection
    swait,      \* the tokens in the channel wait, and a blocked sender
    sfails,     \* history: the number of calls of fail
    \* ---- Socks5.Connect for the clients of the proxy ----
    socks,      \* each client's Connect call: position, buf, results
    \* ---- Handle on one connection ----
    hconn,      \* the connection Handle serves: a wired *Conn or an accepted one
    hq,         \* the packets that arrived and were not read yet
    hpc,        \* where Handle is: "idle", "loop", "hbwait", "ended"
    hcur,       \* the heartbeat HandleHeartbeat is waiting on
    hdtimer,    \* the HeartbeatTimer of the *Conn
    hlog,       \* history: the effects of the handlers, in the order they happened
    hasync,     \* the goroutines the loop started that have not run yet
    harr,       \* history: the number of packets that arrived
    \* ---- ServeInspect on one connection ----
    ipc,        \* where ServeInspect is: "idle", "serving", "waiting", "done"
    ifeat,      \* the features of the request the loop has not served yet
    isub,       \* the subscription made for each feature
    ireg,       \* the live subscriptions of each feature, by index
    iwg,        \* the counter of the WaitGroup
    iconn,      \* the connection: open, and whether its peer is reachable
    iupd,       \* history: the number of updates published
    ipanic,     \* wg.Done() panicked on a negative counter
    \* ---- UpdateRoot and its subscription ----
    upc,        \* where UpdateRoot is: "idle", "select", "cancelled", "returned"
    usub,       \* the subscription: "none", "live", "ended"
    upost,      \* history: the errors PostRun was invoked with
    uruns,      \* history: for each call of Run, the calls of PostRun before it
    ucancels,   \* history: the number of calls of the cancel handle
    uctx,       \* the context is cancelled
    uerrc,      \* the error PostRun is sending on errc
    uret,       \* what UpdateRoot returned
    umsgs,      \* history: the number of messages published
    \* ---- Run, run and Close (booster.go) ----
    rpc,        \* where Run is
    riter,      \* the pass of Run's loop
    rcancel,    \* the pass whose cancel the shared variable holds (0: nil)
    rctx,       \* the context of each pass
    rclo,       \* where the closure run and b.run are, per pass
    rerr,       \* the error b.run read first, per pass
    rsub,       \* where each goroutine of b.run is, per pass
    rwg,        \* the WaitGroup counter of b.run, per pass
    rbuf,       \* the messages in the errc of b.run, per pass
    rclosed,    \* whether the errc of b.run is closed, per pass
    rln,        \* the control listener, per pass
    rclose,     \* the calls of Close
    rrest,      \* the calls of Restart
    rret,       \* what Run returned
    rpanic,     \* the process panicked
    \* ---- the reconnect loop (node/booster.go) ----
    dnodes,     \* the nodes of the balancer
    dstream,    \* the ids published and not yet read by the loop
    dpc,        \* where the loop is: "range" | "connect"
    did,        \* the id the loop is connecting to
    dlog,       \* what the loop decided for each id it read
    dpubs,      \* the ids published so far
    \* ---- ListenAndServe ----
    apc,        \* where ListenAndServe is: idle, select, draining, returned
    aret,       \* what ListenAndServe returned
    aln,        \* the listener: none, open, closed
    agpc,       \* where the accept goroutine is: none, accept, hello, send, done
    agerr,      \* the error the accept goroutine sends on errc
    aconns,     \* the connections ln.Accept returned
    ahandled,   \* the connections b.Handle was started on
    afailedAt,  \* aconns when SendHello failed, 0 before (history)
    actx,       \* the context of run: live, cancelled
    abuf,       \* run's errc, buffered
    arun,       \* where run is: recv, close (in b.Close), wait
    arunerr,    \* the first error run read
    aother      \* another subroutine of run returned

pktVars == <<tagset, pkt, want, lookup, wire, decoded, ppc, repeated>>
netVars == <<conns, Conns, reqs>>
hbVars == <<now, ends, htimer, net>>
pairVars == <<links, pnet>>
tunVars == <<tunnels, tpub, tconn, tlast, tsteps, tseen>>
ssVars == <<spc, sindex, sreal, subs, sconn, published, sent, swait, sfails>>
socksVars == <<socks>>
handleVars == <<hconn, hq, hpc, hcur, hdtimer, hlog, hasync, harr>>
inspectVars == <<ipc, ifeat, isub, ireg, iwg, iconn, iupd, ipanic>>
rootVars == <<upc, usub, upost, uruns, ucancels, uctx, uerrc, uret, umsgs>>
runVars == <<rpc, riter, rcancel, rctx, rclo, rerr, rsub, rwg, rbuf, rclosed, rln, rclose, rrest, rret, rpanic>>
reconnectVars == <<dnodes, dstream, dpc, did, dlog, dpubs>>
listenVars == <<apc, aret, aln, agpc, agerr, aconns, ahandled, afailedAt, actx, abuf, arun, arunerr, aother>>

vars == <<pktVars, netVars, hbVars, pairVars, tunVars, ssVars, socksVars, handleVars, inspectVars, rootVars, runVars, reconnectVars, listenVars>>

\* What the actions of each part leave alone.
notPkt == <<netVars, hbVars, pairVars, tunVars, ssVars, socksVars, handleVars, inspectVars, rootVars, runVars, reconnectVars, listenVars>>
notNet == <<pktVars, hbVars, pairVars, tunVars, ssVars, socksVars, handleVars, inspectVars, rootVars, runVars, reconnectVars, listenVars>>
notHB == <<pktVars, netVars, pairVars, tunVars, ssVars, socksVars, handleVars, inspectVars, rootVars, runVars, reconnectVars, listenVars>>
notPair == <<pktVars, netVars, hbVars, tunVars, ssVars, socksVars, handleVars, inspectVars, rootVars, runVars, reconnectVars, listenVars>>
notTun == <<pktVars, netVars, hbVars, pairVars, ssVars, socksVars, handleVars, inspectVars, rootVars, runVars, reconnectVars, listenVars>>
notSS == <<pktVars, netVars, hbVars, pairVars, tunVars, socksVars, handleVars, inspectVars, rootVars, runVars, reconnectVars, listenVars>>
notSocks == <<pktVars, netVars, hbVars, pairVars, tunVars, ssVars, handleVars, inspectVars, rootVars, runVars, reconnectVars, listenVars>>
notHandle == <<pktVars, netVars, hbVars, pairVars, tunVars, ssVars, socksVars, inspectVars, rootVars, runVars, reconnectVars, listenVars>>
notInspect == <<pktVars, netVars, hbVars, pairVars, tunVars, ssVars, socksVars, handleVars, rootVars, runVars, reconnectVars, listenVars>>
notRoot == <<pktVars, netVars, hbVars, pairVars, tunVars, ssVars, socksVars, handleVars, inspectVars, runVars, reconnectVars, listenVars>>
notRun == <<pktVars, netVars, hbVars, pairVars, tunVars, ssVars, socksVars, handleVars, inspectVars, rootVars, reconnectVars, listenVars>>
notReconnect == <<pktVars, netVars, hbVars, pairVars, tunVars, ssVars, socksVars, handleVars, inspectVars, rootVars, runVars, listenVars>>
notListen == <<pktVars, netVars, hbVars, pairVars, tunVars, ssVars, socksVars, handleVars, inspectVars, rootVars, runVars, reconnectVars>>

(***************************************************************************)
(* Packet codec                                                            *)
(***************************************************************************)

\* Bound of the packet model: the longest payload built.
MaxPayloadLen == 2

\* Module.size is a uint16 (decoder.go:128).
MaxPayloadSize == 65535

None == "none"

Min(a, b) == IF a < b THEN a ELSE b

\* protocol.ModuleHeader "HE", protocol.ModulePayload "PA", and the custom id
\* "fo" of TestAddModule, as ASCII byte pairs.
ModuleHeader == <<72, 69>>
ModulePayload == <<80, 65>>
ModuleCustom == <<102, 111>>
ModuleIds == {ModuleHeader, ModulePayload, ModuleCustom}

Encodings == {0, 1}

\* The payloads built: every length up to MaxPayloadLen, with two different
\* contents for each length above zero.
Payloads ==
    {[i \in 1..k |-> (i + b) % 2] : k \in 0..MaxPayloadLen, b \in {0, 1}}

RECURSIVE SeqsUpTo(_, _)
SeqsUpTo(S, n) ==
    IF n = 0 THEN {<<>>}
    ELSE LET shorter == SeqsUpTo(S, n - 1)
         IN  shorter \cup {Append(s, b) : s \in {t \in shorter : Len(t) = n - 1}, b \in S}

\* The wire format of section 4.A: PacketOpen 4 bytes, separator 1,
\* PayloadOpen 2, PayloadClose 2, PacketClose 4.
TagSetWire ==
    [PacketOpeningTag  |-> <<62, 62, 62, 62>>,
     PacketClosingTag  |-> <<60, 60, 60, 60>>,
     PayloadOpeningTag |-> <<91, 91>>,
     PayloadClosingTag |-> <<93, 93>>,
     Separator         |-> <<58>>]

\* The TagSet of packet_test.go: PayloadOpeningTag is left unset (empty).
TagSetTest == [TagSetWire EXCEPT !.PayloadOpeningTag = <<>>]

TagSets == {TagSetWire, TagSetTest}

\* A packet is its module map: a function from the ids present to modules.
EmptyPacket == [id \in {} |-> 0]

PacketIds(p) == DOMAIN p

\* The nil *Module returned beside an error.
NoModule == [encoding |-> 0, payload |-> <<>>]

\* A store that keeps the module already held under id.
StoreKeepsFirst(p, id, m) ==
    [x \in DOMAIN p \cup {id} |-> IF x \in DOMAIN p THEN p[x] ELSE m]

\* modules[id] = m.
Store(p, id, m) == [x \in DOMAIN p \cup {id} |-> IF x = id THEN m ELSE p[x]]

\* Packet.AddModule(id, payload, encoding): stores the module under id.
AddModule(p, id, payload, enc) ==
    IF Len(payload) > MaxPayloadSize
    THEN [err |-> TRUE, packet |-> p]
    ELSE [err |-> FALSE,
          packet |-> Store(p, id, [encoding |-> enc, payload |-> payload])]

\* Packet.Module(id): the module stored under id, or an error.
Module(p, id) ==
    IF id \notin DOMAIN p THEN [err |-> TRUE, module |-> NoModule]
    ELSE [err |-> FALSE, module |-> p[id]]

\* A uint16 in big-endian order.
U16(n) == <<(n \div 256) % 256, n % 256>>

EncodeModule(ts, id, m) ==
    id \o ts.Separator \o U16(Len(m.payload)) \o ts.Separator \o <<m.encoding>>
       \o ts.PayloadOpeningTag \o m.payload \o ts.PayloadClosingTag

RECURSIVE EncodeModules(_, _, _)
EncodeModules(ts, p, order) ==
    IF order = <<>> THEN <<>>
    ELSE EncodeModule(ts, Head(order), p[Head(order)])
             \o EncodeModules(ts, p, Tail(order))

\* Encoder.Encode: the modules of p written in the given order.
Encode(ts, p, order) ==
    ts.PacketOpeningTag \o U16(Len(order)) \o EncodeModules(ts, p, order)
        \o ts.PacketClosingTag

\* The orders in which the module map of p can be iterated.
Orders(p) ==
    {o \in SeqsUpTo(PacketIds(p), Cardinality(PacketIds(p))) :
        /\ Len(o) = Cardinality(PacketIds(p))
        /\ \A i, j \in 1..Len(o) : i # j => o[i] # o[j]}

Drop(s, n) == SubSeq(s, n + 1, Len(s))

\* io.ReadFull(r, buf) with len(buf) = n.
ReadFull(s, n) ==
    IF Len(s) < n THEN [ok |-> FALSE, data |-> <<>>, rest |-> <<>>]
    ELSE [ok |-> TRUE, data |-> SubSeq(s, 1, n), rest |-> Drop(s, n)]

\* TagReader.Read(buf) with len(buf) = n: "EOF" when the tag was read in
\* full, "nil" when the buffer is too small for the tag to be fully read
\* (decoder.go:76-79), "err" when the stream does not carry the tag.
TagRead(s, tag, n) ==
    LET k == Min(Len(tag), n)
    IN  IF Len(s) < k \/ SubSeq(s, 1, k) # SubSeq(tag, 1, k)
        THEN [res |-> "err", rest |-> <<>>]
        ELSE IF k < Len(tag) THEN [res |-> "nil", rest |-> Drop(s, k)]
        ELSE [res |-> "EOF", rest |-> Drop(s, k)]

ModuleError == [err |-> TRUE, id |-> <<>>, module |-> NoModule, rest |-> <<>>]

\* A module decoder that does not look for the payload closing tag.
ModuleDecodeNoClosingTag(s, ts) ==
    LET rid   == ReadFull(s, 2)
        sep1  == TagRead(rid.rest, ts.Separator, 2)
        rsize == ReadFull(sep1.rest, 2)
        size  == (rsize.data[1] * 256 + rsize.data[2]) % 65536
        sep2  == TagRead(rsize.rest, ts.Separator, 2)
        renc  == ReadFull(sep2.rest, 1)
        otr   == TagRead(renc.rest, ts.PayloadOpeningTag, 1)
        rpl   == ReadFull(otr.rest, size)
    IN  IF ~rid.ok THEN ModuleError
        ELSE IF sep1.res # "EOF" THEN ModuleError
        ELSE IF ~rsize.ok THEN ModuleError
        ELSE IF sep2.res # "EOF" THEN ModuleError
        ELSE IF ~renc.ok THEN ModuleError
        ELSE IF otr.res # "EOF" THEN ModuleError
        ELSE IF ~rpl.ok THEN ModuleError
        ELSE [err |-> FALSE, id |-> rid.data,
              module |-> [encoding |-> renc.data[1], payload |-> rpl.data],
              rest |-> Drop(rpl.rest, Len(ts.PayloadClosingTag))]

\* ModuleDecoder.Decode: one module read from the stream s.
ModuleDecode(s, ts) ==
    LET rid   == ReadFull(s, 2)
        sep1  == TagRead(rid.rest, ts.Separator, 2)
        rsize == ReadFull(sep1.rest, 2)
        size  == (rsize.data[1] * 256 + rsize.data[2]) % 65536
        sep2  == TagRead(rsize.rest, ts.Separator, 2)
        renc  == ReadFull(sep2.rest, 1)
        otr   == TagRead(renc.rest, ts.PayloadOpeningTag, 1)
        rpl   == ReadFull(otr.rest, size)
        ctr   == TagRead(rpl.rest, ts.PayloadClosingTag, size)
    IN  IF ~rid.ok THEN ModuleError
        ELSE IF sep1.res # "EOF" THEN ModuleError
        ELSE IF ~rsize.ok THEN ModuleError
        ELSE IF sep2.res # "EOF" THEN ModuleError
        ELSE IF ~renc.ok THEN ModuleError
        ELSE IF otr.res # "EOF" THEN ModuleError
        ELSE IF ~rpl.ok THEN ModuleError
        ELSE IF ctr.res # "EOF" THEN ModuleError
        ELSE [err |-> FALSE, id |-> rid.data,
              module |-> [encoding |-> renc.data[1], payload |-> rpl.data],
              rest |-> ctr.rest]

\* The loop of Decoder.Decode: i counts the modules still to read.
RECURSIVE DecodeLoop(_, _, _, _)
DecodeLoop(s, ts, i, p) ==
    IF i = 0
    THEN IF TagRead(s, ts.PacketClosingTag, 4).res = "EOF"
         THEN [err |-> FALSE, packet |-> p]
         ELSE [err |-> TRUE, packet |-> p]
    ELSE LET m == ModuleDecode(s, ts)
         IN  IF m.err THEN [err |-> TRUE, packet |-> p]
             ELSE DecodeLoop(m.rest, ts, i - 1, Store(p, m.id, m.module))

\* A decoder that holds a stream to its declared module count.
DecodeCounted(s, ts) ==
    LET otr == TagRead(s, ts.PacketOpeningTag, 4)
        rmn == ReadFull(otr.rest, 2)
        mn  == rmn.data[1] * 256 + rmn.data[2]
        r   == DecodeLoop(rmn.rest, ts, mn, EmptyPacket)
    IN  IF otr.res # "EOF" THEN [err |-> TRUE, packet |-> EmptyPacket]
        ELSE IF ~rmn.ok THEN [err |-> TRUE, packet |-> EmptyPacket]
        ELSE IF Cardinality(PacketIds(r.packet)) < mn THEN [err |-> TRUE, packet |-> r.packet]
        ELSE r

\* Decoder.Decode into a fresh packet.
Decode(s, ts) ==
    LET otr == TagRead(s, ts.PacketOpeningTag, 4)
        rmn == ReadFull(otr.rest, 2)
        mn  == rmn.data[1] * 256 + rmn.data[2]
    IN  IF otr.res # "EOF" THEN [err |-> TRUE, packet |-> EmptyPacket]
        ELSE IF ~rmn.ok THEN [err |-> TRUE, packet |-> EmptyPacket]
        ELSE DecodeLoop(rmn.rest, ts, mn, EmptyPacket)

NoLookup == [id |-> <<>>, err |-> FALSE, module |-> NoModule]

NotDecoded == [err |-> FALSE, packet |-> EmptyPacket]

\* p.AddModule(id, payload, enc) on the packet under construction.
DoAddModule ==
    /\ ppc = "build"
    /\ \E id \in ModuleIds, payload \in Payloads, enc \in Encodings :
          LET r == AddModule(pkt, id, payload, enc)
          IN  /\ ~r.err
              /\ pkt' = r.packet
              /\ want' = [x \in DOMAIN want \cup {id} |->
                              IF x = id THEN [encoding |-> enc, payload |-> payload]
                              ELSE want[x]]
    /\ lookup' = NoLookup
    /\ UNCHANGED <<tagset, wire, decoded, ppc>>
    /\ UNCHANGED repeated
    /\ UNCHANGED notPkt

\* p.Module(id).
DoModule ==
    /\ ppc = "build"
    /\ \E id \in ModuleIds :
          LET r == Module(pkt, id)
          IN  lookup' = [id |-> id, err |-> r.err, module |-> r.module]
    /\ UNCHANGED <<tagset, pkt, want, wire, decoded, ppc>>
    /\ UNCHANGED repeated
    /\ UNCHANGED notPkt

\* pe.Encode(p): the module map is iterated in some order.
DoEncode ==
    /\ ppc = "build"
    /\ \E order \in Orders(pkt) : wire' = Encode(tagset, pkt, order)
    /\ ppc' = "encoded"
    /\ lookup' = NoLookup
    /\ UNCHANGED <<tagset, pkt, want, decoded>>
    /\ UNCHANGED repeated
    /\ UNCHANGED notPkt

\* Bound of the packet model: the most modules of a packet whose bytes are
\* damaged on the way.
MaxDamaged == 1

\* The values a damaged byte takes: small numbers and the bytes of the tags.
DamagedBytes == {0, 2, 58, 93}

\* What can happen to the bytes on the way: the stream ends early, a byte
\* is lost, a byte arrives with another value.
Damaged(s) ==
    {SubSeq(s, 1, k) : k \in 0 .. Len(s) - 1}
        \cup {SubSeq(s, 1, i - 1) \o Drop(s, i) : i \in 1 .. Len(s)}
        \cup {[s EXCEPT ![i] = b] : i \in 1 .. Len(s), b \in DamagedBytes}

\* The bytes written by the encoder are damaged before they are read.
DoDamage ==
    /\ ppc = "encoded"
    /\ Cardinality(PacketIds(pkt)) <= MaxDamaged
    /\ \E s \in Damaged(wire) \ {wire} : wire' = s
    /\ ppc' = "damaged"
    /\ UNCHANGED <<tagset, pkt, want, lookup, decoded>>
    /\ UNCHANGED repeated
    /\ UNCHANGED notPkt

\* Bound of the packet model: the most modules of a packet written with one
\* of its ids twice.
MaxRepeated == 2

\* No module written twice.
NoRepeat == [id |-> <<>>, earlier |-> NoModule, later |-> NoModule, declared |-> 0]

\* The bytes of a well-framed packet that declares one module more than p
\* holds: the modules of p in the given order, with the module m written
\* under id after the first j of them.
RepeatStream(ts, p, order, j, id, m) ==
    ts.PacketOpeningTag \o U16(Len(order) + 1)
        \o EncodeModules(ts, p, SubSeq(order, 1, j))
        \o EncodeModule(ts, id, m)
        \o EncodeModules(ts, p, SubSeq(order, j + 1, Len(order)))
        \o ts.PacketClosingTag

\* A peer writes a packet in which an id comes twice: the modules of pkt,
\* and somewhere after the module of one of its ids a second module under
\* the same id.
DoRepeat ==
    /\ ppc = "build"
    /\ pkt # EmptyPacket
    /\ Cardinality(PacketIds(pkt)) <= MaxRepeated
    /\ \E order \in Orders(pkt), payload \in Payloads, enc \in Encodings :
          \E i \in 1 .. Len(order) :
             \E j \in i .. Len(order) :
                LET m == [encoding |-> enc, payload |-> payload]
                IN  /\ wire' = RepeatStream(tagset, pkt, order, j, order[i], m)
                    /\ repeated' = [id |-> order[i], earlier |-> pkt[order[i]],
                                    later |-> m, declared |-> Len(order) + 1]
    /\ ppc' = "repeated"
    /\ lookup' = NoLookup
    /\ UNCHANGED <<tagset, pkt, want, decoded>>
    /\ UNCHANGED notPkt

\* pd.Decode(pr) on the bytes that arrive: those written by the encoder,
\* damaged ones, or those of a stream with a module id written twice.
DoDecode ==
    /\ ppc \in {"encoded", "damaged", "repeated"}
    /\ decoded' = Decode(wire, tagset)
    /\ ppc' = IF ppc = "encoded" THEN "decoded"
              ELSE IF ppc = "damaged" THEN "checked" ELSE "read"
    /\ UNCHANGED <<tagset, pkt, want, lookup, wire>>
    /\ UNCHANGED repeated
    /\ UNCHANGED notPkt

NextPacket == DoAddModule \/ DoModule \/ DoEncode \/ DoDecode

NextDamage == NextPacket \/ DoDamage

NextRepeat == NextPacket \/ DoRepeat


(***************************************************************************)
(* The network of one booster node: Wire, HandleConnect, HandleDisconnect, *)
(* the heartbeat timer's expiry and the tracer's revival.                  *)
(***************************************************************************)

\* Bounds of the network model: *Conn objects dialed, requests served.
MaxConns == 2
MaxReqs == 2

Peers == {"B", "C"}
ConnIds == 1..MaxConns
ReqIds == 1..MaxReqs

\* A *Conn with its RemoteNode. open: conn.Conn != nil. added: AddConn
\* accepted it (history). timer: the HeartbeatTimer. handled: Handle runs.
\* disconnected: HandleDisconnect closed it (history).
NoConn ==
    [peer |-> None, open |-> FALSE, isActive |-> FALSE, toBeTraced |-> FALSE,
     timer |-> "none", handled |-> FALSE, added |-> FALSE,
     disconnected |-> FALSE]

\* The Conn that DialContext returns: a node built from the peer's HELLO.
DialedConn(k) == [NoConn EXCEPT !.peer = k, !.open = TRUE]

\* The Conn of peer B after a Connect that wired it and a Disconnect that
\* closed it.
DisconnectedConn ==
    [NoConn EXCEPT !.peer = "B", !.timer = "running", !.handled = TRUE,
                   !.added = TRUE, !.disconnected = TRUE]

\* Conn.Close: closing twice has no effect; the RemoteNode becomes inactive.
CloseConn(cs, c) ==
    IF cs[c].open THEN [cs EXCEPT ![c].open = FALSE, ![c].isActive = FALSE]
    ELSE cs

\* Network.AddConn(c): rejected when a live Conn is held for the peer.
AddConn(C, cs, c) ==
    LET old == C[cs[c].peer]
    IN  IF old # 0 /\ cs[old].open
        THEN [err |-> TRUE, Conns |-> C]
        ELSE [err |-> FALSE, Conns |-> [C EXCEPT ![cs[c].peer] = c]]

\* A request served by a handler, or a Wire run started by the tracer.
\* origin: 0 for a client connection, c for the wired Conn c it arrived on.
\* conn: the Conn Wire dialed, or the Conn HandleDisconnect looked up.
\* wire: the outcome of Wire; why: the step that failed.
NoReq ==
    [kind |-> "none", peer |-> None, origin |-> 0, pc |-> "idle",
     conn |-> 0, wire |-> "", why |-> "", origOpen |-> FALSE, replies |-> 0]

\* A handler that has returned.
DoneReq == [NoReq EXCEPT !.pc = "done"]

\* Requests and Conns are numbered in the order they come.
FreeReq(r) == reqs[r].pc = "idle" /\ (IF r = 1 THEN TRUE ELSE reqs[r - 1].pc # "idle")
FreeConn(c) == conns[c].peer = None /\ (IF c = 1 THEN TRUE ELSE conns[c - 1].peer # None)

Busy(r) == reqs[r].pc \notin {"idle", "done"}

\* The originating connection of request r is open.
OrigOpen(r) ==
    IF reqs[r].origin = 0 THEN reqs[r].origOpen ELSE conns[reqs[r].origin].open

\* Handle reads a Connect or Disconnect packet from a connection (a client's
\* accepted connection, or a wired Conn whose Handle loop is free) and the
\* handler validates it: ValidatePacket, p.Module(ModulePayload) and the
\* decoding of the payload.
Request(r) ==
    /\ FreeReq(r)
    /\ \E kind \in {"connect", "disconnect"}, k \in Peers, valid \in BOOLEAN,
          o \in {0} \cup {c \in ConnIds : conns[c].handled /\ conns[c].open} :
          /\ o # 0 => \A q \in ReqIds : Busy(q) => reqs[q].origin # o
          /\ reqs' = [reqs EXCEPT ![r] =
                 [NoReq EXCEPT !.kind = kind, !.peer = k, !.origin = o,
                               !.origOpen = (o = 0),
                               !.why = IF valid THEN "" ELSE "invalid",
                               !.pc = IF ~valid THEN "close"
                                      ELSE IF kind = "connect" THEN "dial"
                                      ELSE "lookup"]]
    /\ UNCHANGED <<conns, Conns>>
    /\ UNCHANGED notNet

\* Where Wire's caller continues when Wire returns: HandleConnect sends the
\* Node packet or returns through its deferred Close; the tracer's run ends.
AfterWire(r, ok) ==
    IF reqs[r].kind = "revive" THEN DoneReq
    ELSE [reqs[r] EXCEPT !.wire = IF ok THEN "ok" ELSE "failed",
                         !.pc = IF ok THEN "sendnode" ELSE "close"]

\* Wire: b.DialContext(ctx, network, target).
WireDial(r) ==
    /\ reqs[r].pc = "dial"
    /\ \/ /\ reqs' = [reqs EXCEPT ![r] = AfterWire(r, FALSE), ![r].why = "dial"]
          /\ UNCHANGED conns
       \/ \E c \in ConnIds :
             /\ FreeConn(c)
             /\ conns' = [conns EXCEPT ![c] = DialedConn(reqs[r].peer)]
             /\ reqs' = [reqs EXCEPT ![r].conn = c, ![r].pc = "addconn"]
    /\ UNCHANGED Conns
    /\ UNCHANGED notNet

\* Wire going on after AddConn whatever it returned.
WireAddConnUnchecked(r) ==
    /\ reqs[r].pc = "addconn"
    /\ LET res == AddConn(Conns, conns, reqs[r].conn)
       IN  /\ Conns' = res.Conns
           /\ conns' = [conns EXCEPT ![reqs[r].conn].added = ~res.err]
           /\ reqs' = [reqs EXCEPT ![r].pc = "notify"]
    /\ UNCHANGED notNet

\* Wire: err = b.Net().AddConn(conn); on error, fail(err).
WireAddConn(r) ==
    /\ reqs[r].pc = "addconn"
    /\ LET res == AddConn(Conns, conns, reqs[r].conn)
       IN  IF res.err
           THEN /\ reqs' = [reqs EXCEPT ![r].why = "addconn", ![r].pc = "fail"]
                /\ UNCHANGED <<conns, Conns>>
           ELSE /\ Conns' = res.Conns
                /\ conns' = [conns EXCEPT ![reqs[r].conn].added = TRUE]
                /\ reqs' = [reqs EXCEPT ![r].pc = "notify"]
    /\ UNCHANGED notNet

\* Wire: EncodeDefault(nil, MessageNotify) and conn.Send(p); a Send on a
\* closed Conn fails.
WireNotify(r) ==
    /\ reqs[r].pc = "notify"
    /\ \/ reqs' = [reqs EXCEPT ![r].why = "notify", ![r].pc = "fail"]
       \/ /\ conns[reqs[r].conn].open
          /\ reqs' = [reqs EXCEPT ![r].pc = "heartbeat"]
    /\ UNCHANGED <<conns, Conns>>
    /\ UNCHANGED notNet

\* Wire: composeHeartbeat(nil) and conn.Send(p); then
\* conn.HeartbeatTimer = time.AfterFunc(2*HeartbeatTTL, ...).
WireHeartbeat(r) ==
    /\ reqs[r].pc = "heartbeat"
    /\ \/ /\ reqs' = [reqs EXCEPT ![r].why = "heartbeat", ![r].pc = "fail"]
          /\ UNCHANGED conns
       \/ /\ conns[reqs[r].conn].open
          /\ conns' = [conns EXCEPT ![reqs[r].conn].timer = "running"]
          /\ reqs' = [reqs EXCEPT ![r].pc = "active"]
    /\ UNCHANGED Conns
    /\ UNCHANGED notNet

\* Wire: conn.RemoteNode.SetIsActive(true).
WireActive(r) ==
    /\ reqs[r].pc = "active"
    /\ conns' = [conns EXCEPT ![reqs[r].conn].isActive = TRUE]
    /\ reqs' = [reqs EXCEPT ![r].pc = "traced"]
    /\ UNCHANGED Conns
    /\ UNCHANGED notNet

\* Wire: conn.RemoteNode.ToBeTraced = true; go b.Handle(ctx, conn);
\* return conn, nil.
WireTraced(r) ==
    /\ reqs[r].pc = "traced"
    /\ conns' = [conns EXCEPT ![reqs[r].conn].toBeTraced = TRUE,
                              ![reqs[r].conn].handled = TRUE]
    /\ reqs' = [reqs EXCEPT ![r] = AfterWire(r, TRUE)]
    /\ UNCHANGED Conns
    /\ UNCHANGED notNet

\* Wire's fail closing the Conn the Network holds for the peer.
WireFailClosesHeld(r) ==
    /\ reqs[r].pc = "fail"
    /\ conns' = IF Conns[reqs[r].peer] = 0 THEN conns
                ELSE CloseConn(conns, Conns[reqs[r].peer])
    /\ reqs' = [reqs EXCEPT ![r] = AfterWire(r, FALSE)]
    /\ UNCHANGED Conns
    /\ UNCHANGED notNet

\* Wire's fail returning the error without closing the Conn.
WireFailNoClose(r) ==
    /\ reqs[r].pc = "fail"
    /\ reqs' = [reqs EXCEPT ![r] = AfterWire(r, FALSE)]
    /\ UNCHANGED <<conns, Conns>>
    /\ UNCHANGED notNet

\* Wire's fail: conn.Close(); return nil, err.
WireFail(r) ==
    /\ reqs[r].pc = "fail"
    /\ conns' = CloseConn(conns, reqs[r].conn)
    /\ reqs' = [reqs EXCEPT ![r] = AfterWire(r, FALSE)]
    /\ UNCHANGED Conns
    /\ UNCHANGED notNet

\* HandleConnect and HandleDisconnect: composeNode and conn.Send(p) to the
\* originator; a failed Send is only logged.
SendNode(r) ==
    /\ reqs[r].pc = "sendnode"
    /\ \/ reqs' = [reqs EXCEPT ![r].pc = "close"]
       \/ /\ OrigOpen(r)
          /\ reqs' = [reqs EXCEPT ![r].replies = @ + 1, ![r].pc = "close"]
    /\ UNCHANGED <<conns, Conns>>
    /\ UNCHANGED notNet

\* The deferred conn.Close() of HandleConnect and HandleDisconnect.
CloseOrigin(r) ==
    /\ reqs[r].pc = "close"
    /\ reqs' = [reqs EXCEPT ![r] = DoneReq]
    /\ conns' = IF reqs[r].origin = 0 THEN conns ELSE CloseConn(conns, reqs[r].origin)
    /\ UNCHANGED Conns
    /\ UNCHANGED notNet

\* HandleDisconnect answering an unknown id with a packet.
DisconnectLookupReplies(r) ==
    /\ reqs[r].pc = "lookup"
    /\ IF Conns[reqs[r].peer] = 0
       THEN reqs' = [reqs EXCEPT ![r].why = "unknown", ![r].pc = "sendnode"]
       ELSE reqs' = [reqs EXCEPT ![r].conn = Conns[reqs[r].peer], ![r].pc = "untrace"]
    /\ UNCHANGED <<conns, Conns>>
    /\ UNCHANGED notNet

\* HandleDisconnect: c, ok := Nets.Get(b.ID).Conns[pl.ID]; if !ok, fail.
DisconnectLookup(r) ==
    /\ reqs[r].pc = "lookup"
    /\ IF Conns[reqs[r].peer] = 0
       THEN reqs' = [reqs EXCEPT ![r].why = "unknown", ![r].pc = "close"]
       ELSE reqs' = [reqs EXCEPT ![r].conn = Conns[reqs[r].peer], ![r].pc = "untrace"]
    /\ UNCHANGED <<conns, Conns>>
    /\ UNCHANGED notNet

\* HandleDisconnect: c.RemoteNode.ToBeTraced = false.
DisconnectUntrace(r) ==
    /\ reqs[r].pc = "untrace"
    /\ conns' = [conns EXCEPT ![reqs[r].conn].toBeTraced = FALSE]
    /\ reqs' = [reqs EXCEPT ![r].pc = "closeconn"]
    /\ UNCHANGED Conns
    /\ UNCHANGED notNet

\* HandleDisconnect going on to its reply without closing the Conn.
DisconnectCloseSkipped(r) ==
    /\ reqs[r].pc = "closeconn"
    /\ conns' = [conns EXCEPT ![reqs[r].conn].disconnected = TRUE]
    /\ reqs' = [reqs EXCEPT ![r].pc = "sendnode"]
    /\ UNCHANGED Conns
    /\ UNCHANGED notNet

\* HandleDisconnect: c.Close().
DisconnectClose(r) ==
    /\ reqs[r].pc = "closeconn"
    /\ conns' = [CloseConn(conns, reqs[r].conn) EXCEPT
                    ![reqs[r].conn].disconnected = TRUE]
    /\ reqs' = [reqs EXCEPT ![r].pc = "sendnode"]
    /\ UNCHANGED Conns
    /\ UNCHANGED notNet

\* The HeartbeatTimer's function: no heartbeat came in time.
\*     if conn.Conn != nil { conn.Close() }
TimerFire(c) ==
    /\ conns[c].timer = "running"
    /\ conns' = [CloseConn(conns, c) EXCEPT ![c].timer = "fired"]
    /\ UNCHANGED <<Conns, reqs>>
    /\ UNCHANGED notNet

\* Handle: a packet's handler returns an error and Handle closes the Conn.
HandlerError(c) ==
    /\ conns[c].handled
    /\ conns[c].open
    /\ conns' = CloseConn(conns, c)
    /\ UNCHANGED <<Conns, reqs>>
    /\ UNCHANGED notNet

\* The tracer found a closed peer that is to be traced: Wire runs again.
TracerRevive(r) ==
    /\ FreeReq(r)
    /\ \E k \in Peers :
          /\ Conns[k] # 0
          /\ ~conns[Conns[k]].open
          /\ conns[Conns[k]].toBeTraced
          /\ reqs' = [reqs EXCEPT ![r] =
                 [NoReq EXCEPT !.kind = "revive", !.peer = k, !.pc = "dial"]]
    /\ UNCHANGED <<conns, Conns>>
    /\ UNCHANGED notNet

NextNet ==
    \/ \E r \in ReqIds :
          \/ Request(r)
          \/ WireDial(r) \/ WireAddConn(r) \/ WireNotify(r) \/ WireHeartbeat(r)
          \/ WireActive(r) \/ WireTraced(r) \/ WireFail(r)
          \/ SendNode(r) \/ CloseOrigin(r)
          \/ DisconnectLookup(r) \/ DisconnectUntrace(r) \/ DisconnectClose(r)
          \/ TracerRevive(r)
    \/ \E c \in ConnIds : TimerFire(c) \/ HandlerError(c)

(***************************************************************************)
(* One control link under a clock: the end W ran Wire and owns a           *)
(* HeartbeatTimer; the end S accepted the connection in ListenAndServe and *)
(* runs Handle on a connection that is no *Conn, so it has no timer.       *)
(***************************************************************************)

\* Bound of the clock.
MaxTime == 10

\* How late a timer's function or a handler's wake-up may run, in ticks: a
\* timer or a sleep of d lasts at least d.
MaxLate == 1

\* Network.HeartbeatTTL (8 s), in ticks of 4 s.
HeartbeatTTL == 2

Ends == {"W", "S"}
Other(e) == IF e = "W" THEN "S" ELSE "W"

NoHeartbeat == [ttl |-> 0, hops |-> 0, after |-> -1]

\* composeHeartbeat(pl): a heartbeat that expires HeartbeatTTL from now;
\* hops counts the replies; after is the TTL of the heartbeat it answers
\* (history; -1 for the one Wire injects).
ComposeHeartbeat(pl, first) ==
    [ttl |-> now + HeartbeatTTL,
     hops |-> IF first THEN 0 ELSE pl.hops + 1,
     after |-> IF first THEN -1 ELSE pl.ttl]

\* An end of the link as the connection is established: the accepting end
\* already runs Handle.
StartEnd(e) ==
    [open |-> TRUE, pc |-> IF e = "W" THEN "start" ELSE "recv",
     cur |-> NoHeartbeat, seen |-> 0, why |-> ""]

\* No HeartbeatTimer yet.
NoTimer == [state |-> "none", deadline |-> 0]

\* conn.Close() by a handler's fail or by the timer.
CloseEnd(e, why) ==
    [ends EXCEPT ![e].open = FALSE, ![e].pc = "closed", ![e].why = why]

\* Wire: the first Heartbeat is sent, the HeartbeatTimer is armed at
\* 2*HeartbeatTTL, and Handle starts on the Conn.
HBWire ==
    /\ ends["W"].pc = "start"
    /\ net' = [net EXCEPT !["S"] = Append(@, ComposeHeartbeat(NoHeartbeat, TRUE))]
    /\ htimer' = [state |-> "running", deadline |-> now + 2 * HeartbeatTTL]
    /\ ends' = [ends EXCEPT !["W"].pc = "recv", !["W"].seen = now]
    /\ UNCHANGED now
    /\ UNCHANGED notHB

\* HandleHeartbeat stopping the timer before it looks at the TTL.
HBReceiveStopsFirst(e) ==
    /\ ends[e].pc = "recv"
    /\ ends[e].open
    /\ net[e] # <<>>
    /\ net' = [net EXCEPT ![e] = Tail(@)]
    /\ htimer' = IF e = "W" /\ htimer.state = "running"
                 THEN [htimer EXCEPT !.state = "stopped"] ELSE htimer
    /\ IF Head(net[e]).ttl < now
       THEN ends' = CloseEnd(e, "expired")
       ELSE ends' = [ends EXCEPT ![e].pc = "sleep", ![e].cur = Head(net[e]),
                                 ![e].seen = now]
    /\ UNCHANGED now
    /\ UNCHANGED notHB

\* Handle reads a Heartbeat packet and HandleHeartbeat checks it: an expired
\* one closes the connection; otherwise the timer is stopped (on a *Conn)
\* and the handler waits for the TTL.
HBReceive(e) ==
    /\ ends[e].pc = "recv"
    /\ ends[e].open
    /\ net[e] # <<>>
    /\ net' = [net EXCEPT ![e] = Tail(@)]
    /\ IF Head(net[e]).ttl < now
       THEN /\ ends' = CloseEnd(e, "expired")
            /\ UNCHANGED htimer
       ELSE /\ ends' = [ends EXCEPT ![e].pc = "sleep", ![e].cur = Head(net[e]),
                                    ![e].seen = now]
            /\ htimer' = IF e = "W" /\ htimer.state = "running"
                         THEN [htimer EXCEPT !.state = "stopped"] ELSE htimer
    /\ UNCHANGED now
    /\ UNCHANGED notHB

\* HandleHeartbeat answering at once, without waiting for the TTL.
HBWakeAtOnce(e) ==
    /\ ends[e].pc = "sleep"
    /\ htimer' = IF e = "W"
                 THEN [state |-> "running", deadline |-> now + 2 * HeartbeatTTL]
                 ELSE htimer
    /\ ends' = [ends EXCEPT ![e].pc = "recv"]
    /\ net' = [net EXCEPT ![Other(e)] = Append(@, ComposeHeartbeat(ends[e].cur, FALSE))]
    /\ UNCHANGED now
    /\ UNCHANGED notHB

\* HandleHeartbeat after the wait: the timer is reset to 2*HeartbeatTTL (on
\* a *Conn), a new heartbeat is composed and sent; a failed Send closes the
\* connection.
HBWake(e) ==
    /\ ends[e].pc = "sleep"
    /\ now >= ends[e].cur.ttl
    /\ htimer' = IF e = "W"
                 THEN [state |-> "running", deadline |-> now + 2 * HeartbeatTTL]
                 ELSE htimer
    /\ IF ends[Other(e)].open
       THEN /\ ends' = [ends EXCEPT ![e].pc = "recv"]
            /\ net' = [net EXCEPT ![Other(e)] =
                          Append(@, ComposeHeartbeat(ends[e].cur, FALSE))]
       ELSE /\ ends' = CloseEnd(e, "send")
            /\ UNCHANGED net
    /\ UNCHANGED now
    /\ UNCHANGED notHB

\* The HeartbeatTimer's function: if conn.Conn != nil { conn.Close() }.
HBTimerFire ==
    /\ htimer.state = "running"
    /\ now >= htimer.deadline
    /\ htimer' = [htimer EXCEPT !.state = "fired"]
    /\ ends' = IF ends["W"].open THEN CloseEnd("W", "timeout") ELSE ends
    /\ UNCHANGED <<now, net>>
    /\ UNCHANGED notHB

\* The peer closed the connection: Consume's channel is closed and Handle
\* returns.
HBPeerGone(e) ==
    /\ ends[e].pc = "recv"
    /\ ~ends[Other(e)].open
    /\ net[e] = <<>>
    /\ ends' = [ends EXCEPT ![e].pc = "ended"]
    /\ UNCHANGED <<now, htimer, net>>
    /\ UNCHANGED notHB

\* Time passes, but no more than MaxLate beyond a running timer's deadline
\* or the end of a handler's wait.
Tick ==
    /\ now < MaxTime
    /\ htimer.state = "running" => now < htimer.deadline + MaxLate
    /\ \A e \in Ends : ends[e].pc = "sleep" => now < ends[e].cur.ttl + MaxLate
    /\ now' = now + 1
    /\ UNCHANGED <<ends, htimer, net>>
    /\ UNCHANGED notHB

NextHB ==
    \/ HBWire
    \/ \E e \in Ends : HBReceive(e) \/ HBWake(e) \/ HBPeerGone(e)
    \/ HBTimerFire
    \/ Tick

(***************************************************************************)
(* Two booster nodes, A and B, that run Connect against each other: the    *)
(* dialing side of a connection runs Wire, the accepting side runs         *)
(* ListenAndServe's loop and Handle.                                       *)
(***************************************************************************)

\* Bound of the two-node model: connections dialed.
MaxLinks == 2

Nodes == {"A", "B"}
LinkIds == 1..MaxLinks

\* The other node.
Remote(n) == IF n = "A" THEN "B" ELSE "A"

\* A control connection. dialer: the node whose Wire dialed it; peer: the
\* node that accepted it; open, added, isActive, toBeTraced: the dialer's
\* *Conn and its RemoteNode; accepted: the accepting node holds the
\* connection open and runs Handle on it; pc: where the dialer's Wire is.
NoLink ==
    [dialer |-> None, peer |-> None, pc |-> "idle", open |-> FALSE,
     accepted |-> FALSE, added |-> FALSE, isActive |-> FALSE,
     toBeTraced |-> FALSE]

\* Two nodes just started: no connection, empty Networks.
PairIdle ==
    /\ links = [l \in LinkIds |-> NoLink]
    /\ pnet = [n \in Nodes |-> [k \in Nodes |-> 0]]

FreeLink(l) ==
    links[l].pc = "idle" /\ (IF l = 1 THEN TRUE ELSE links[l - 1].pc # "idle")

\* HandleConnect at node n: Wire, DialContext, dialer.DialContext to the
\* other node's control port.
PairDial(l) ==
    /\ FreeLink(l)
    /\ \E n \in Nodes :
          links' = [links EXCEPT ![l] =
                       [NoLink EXCEPT !.dialer = n, !.peer = Remote(n),
                                      !.pc = "accept"]]
    /\ UNCHANGED pnet
    /\ UNCHANGED notPair

\* ListenAndServe at the accepting node: ln.Accept, b.SendHello(ctx, conn),
\* go b.Handle(ctx, conn). The Network of the accepting node is not touched.
PairAccept(l) ==
    /\ links[l].pc = "accept"
    /\ links' = [links EXCEPT ![l].accepted = TRUE, ![l].pc = "hello"]
    /\ UNCHANGED pnet
    /\ UNCHANGED notPair

\* DialContext at the dialer: b.RecvHello(ctx, conn) returns the *Conn, or
\* an error and Wire returns it.
PairRecvHello(l) ==
    /\ links[l].pc = "hello"
    /\ \/ links' = [links EXCEPT ![l].open = TRUE, ![l].pc = "addconn"]
       \/ links' = [links EXCEPT ![l].pc = "failed"]
    /\ UNCHANGED pnet
    /\ UNCHANGED notPair

\* Wire at the dialer: err = b.Net().AddConn(conn); on error, fail(err).
PairAddConn(l) ==
    /\ links[l].pc = "addconn"
    /\ LET res == AddConn(pnet[links[l].dialer], links, l)
       IN  IF res.err
           THEN /\ links' = [links EXCEPT ![l].pc = "fail"]
                /\ UNCHANGED pnet
           ELSE /\ pnet' = [pnet EXCEPT ![links[l].dialer] = res.Conns]
                /\ links' = [links EXCEPT ![l].added = TRUE, ![l].pc = "notify"]
    /\ UNCHANGED notPair

\* Wire at the dialer: the Notify packet and the first Heartbeat are sent;
\* a Send fails when the connection is closed on either side. Then the
\* HeartbeatTimer is armed.
PairSend(l) ==
    /\ links[l].pc \in {"notify", "heartbeat"}
    /\ IF links[l].open /\ links[l].accepted
       THEN links' = [links EXCEPT ![l].pc =
                         IF links[l].pc = "notify" THEN "heartbeat" ELSE "active"]
       ELSE links' = [links EXCEPT ![l].pc = "fail"]
    /\ UNCHANGED pnet
    /\ UNCHANGED notPair

\* Wire at the dialer: SetIsActive(true), ToBeTraced = true, go Handle,
\* return conn.
PairActive(l) ==
    /\ links[l].pc = "active"
    /\ links' = [links EXCEPT ![l].isActive = TRUE, ![l].toBeTraced = TRUE,
                              ![l].pc = "wired"]
    /\ UNCHANGED pnet
    /\ UNCHANGED notPair

\* Wire's fail at the dialer: conn.Close(); return nil, err.
PairFail(l) ==
    /\ links[l].pc = "fail"
    /\ links' = [CloseConn(links, l) EXCEPT ![l].pc = "failed"]
    /\ UNCHANGED pnet
    /\ UNCHANGED notPair

\* Handle at the accepting node: a handler fails and the connection is
\* closed.
PairAcceptorClose(l) ==
    /\ links[l].accepted
    /\ links' = [links EXCEPT ![l].accepted = FALSE]
    /\ UNCHANGED pnet
    /\ UNCHANGED notPair

\* The dialer's HeartbeatTimer fires when the accepting side is gone.
PairTimeout(l) ==
    /\ links[l].pc \in {"active", "wired"}
    /\ links[l].open
    /\ ~links[l].accepted
    /\ links' = CloseConn(links, l)
    /\ UNCHANGED pnet
    /\ UNCHANGED notPair

NextPair ==
    \E l \in LinkIds :
        \/ PairDial(l) \/ PairAccept(l) \/ PairRecvHello(l) \/ PairAddConn(l)
        \/ PairSend(l) \/ PairActive(l) \/ PairFail(l)
        \/ PairAcceptorClose(l) \/ PairTimeout(l)

(***************************************************************************)
(* The tunnel sets of a node's graph: the local proxy's events reach the   *)
(* LocalNode through UpdateRoot, a peer's TunnelEvent packets reach its    *)
(* RemoteNode through Handle and HandleTunnel.  Both go through            *)
(* UpdateNode.                                                             *)
(***************************************************************************)

\* Bound of the tunnel model: the number of events handled.
MaxEvents == 4

\* Bound of the tunnel model: the sequence ids events are told apart by.
MaxSeq == 2

Targets == {"t1", "t2"}
TNodes == {"local", "remote"}
SeqIds == 1 .. MaxSeq

\* socks5.Event: the lifecycle events of a tunnel.
EventOpen == "Open"
EventClose == "Close"
EventAck == "Ack"
Events == {EventOpen, EventClose, EventAck}

\* Where HandleTunnel can fail before it reaches UpdateNode.
Faults == {"none", "validate", "module", "decode"}

NoTunnels == [t \in {} |-> 0]

NewTunnel == [copies |-> 1, confirmed |-> FALSE]

PutTunnel(f, t, v) == [x \in DOMAIN f \cup {t} |-> IF x = t THEN v ELSE f[x]]

DelTunnel(f, t) == [x \in DOMAIN f \ {t} |-> f[x]]

\* A node's tunnel set after the event: Open inserts or increments copies,
\* Close decrements and removes at zero, Ack confirms; Close and Ack of a
\* tunnel the node does not have fail with TunnelStateError.
ApplyEvent(f, t, ev) ==
    IF ev = EventOpen
    THEN [err |-> None,
          tunnels |-> IF t \in DOMAIN f
                      THEN PutTunnel(f, t, [f[t] EXCEPT !.copies = @ + 1])
                      ELSE PutTunnel(f, t, NewTunnel)]
    ELSE IF t \notin DOMAIN f
    THEN [err |-> "TunnelStateError", tunnels |-> f]
    ELSE IF ev = EventClose
    THEN [err |-> None,
          tunnels |-> IF f[t].copies - 1 = 0
                      THEN DelTunnel(f, t)
                      ELSE PutTunnel(f, t, [f[t] EXCEPT !.copies = @ - 1])]
    ELSE [err |-> None,
          tunnels |-> PutTunnel(f, t, [f[t] EXCEPT !.confirmed = TRUE])]

\* Booster.UpdateNode(node, message, propagate): applies the event to the
\* node under its mutex; a failed event changes nothing and is returned; an
\* applied one is published to the subscribed peers when propagate is set.
UpdateNode(n, t, ev, propagate) ==
    LET r == ApplyEvent(tunnels[n], t, ev) IN
    /\ tunnels' = [tunnels EXCEPT ![n] = r.tunnels]
    /\ tpub' = IF r.err = None /\ propagate
               THEN Append(tpub, [node |-> n, target |-> t, event |-> ev])
               ELSE tpub

NoEvent ==
    [op |-> None, node |-> None, target |-> None, event |-> None, seq |-> 0,
     dup |-> FALSE, err |-> None]

TunIdle ==
    /\ tunnels = [n \in TNodes |-> NoTunnels]
    /\ tpub = << >>
    /\ tconn = TRUE
    /\ tlast = NoEvent
    /\ tsteps = 0
    /\ tseen = [q \in SeqIds |-> {}]

\* UpdateRoot's subscription: an event of the local proxy updates the
\* LocalNode; an error is logged.
UpdateRoot(t, ev) ==
    /\ tsteps < MaxEvents
    /\ UpdateNode("local", t, ev, TRUE)
    /\ tlast' = [op |-> "UpdateRoot", node |-> "local", target |-> t,
                 event |-> ev, seq |-> 0, dup |-> FALSE,
                 err |-> ApplyEvent(tunnels["local"], t, ev).err]
    /\ tsteps' = tsteps + 1
    /\ UNCHANGED <<tconn, tseen>>
    /\ UNCHANGED notTun

\* HandleTunnel with a fail function that closes the Conn, as
\* HandleHeartbeat's does.
HandleTunnelFailCloses(q, t, ev, fault) ==
    /\ tconn
    /\ tsteps < MaxEvents
    /\ tseen[q] \subseteq {<<t, ev>>}
    /\ IF fault # "none"
       THEN /\ tlast' = [op |-> "HandleTunnel", node |-> "remote",
                         target |-> t, event |-> ev, seq |-> q,
                         dup |-> FALSE, err |-> fault]
            /\ tconn' = FALSE
            /\ UNCHANGED <<tunnels, tpub, tseen>>
       ELSE /\ UpdateNode("remote", t, ev, TRUE)
            /\ tlast' = [op |-> "HandleTunnel", node |-> "remote",
                         target |-> t, event |-> ev, seq |-> q,
                         dup |-> tseen[q] # {},
                         err |-> ApplyEvent(tunnels["remote"], t, ev).err]
            /\ tseen' = [tseen EXCEPT ![q] = {<<t, ev>>}]
            /\ tconn' = (ApplyEvent(tunnels["remote"], t, ev).err = None)
    /\ tsteps' = tsteps + 1
    /\ UNCHANGED notTun

\* HandleTunnel that hands every event to UpdateNode as an Open.
HandleTunnelAlwaysOpens(q, t, ev, fault) ==
    /\ tconn
    /\ tsteps < MaxEvents
    /\ tseen[q] \subseteq {<<t, ev>>}
    /\ IF fault # "none"
       THEN /\ tlast' = [op |-> "HandleTunnel", node |-> "remote",
                         target |-> t, event |-> ev, seq |-> q,
                         dup |-> FALSE, err |-> fault]
            /\ UNCHANGED <<tunnels, tpub, tseen>>
       ELSE /\ UpdateNode("remote", t, EventOpen, TRUE)
            /\ tlast' = [op |-> "HandleTunnel", node |-> "remote",
                         target |-> t, event |-> ev, seq |-> q,
                         dup |-> tseen[q] # {},
                         err |-> None]
            /\ tseen' = [tseen EXCEPT ![q] = {<<t, ev>>}]
    /\ tsteps' = tsteps + 1
    /\ UNCHANGED tconn
    /\ UNCHANGED notTun

\* HandleTunnel on a TunnelEvent packet of the peer: the packet is
\* validated, its payload module looked up and decoded, and the event
\* (target, event) applied to conn.RemoteNode.  The packet carries no
\* sequence id: q only tells the events of the peer apart.  Every failure
\* is logged and nothing else.
HandleTunnel(q, t, ev, fault) ==
    /\ tconn
    /\ tsteps < MaxEvents
    /\ tseen[q] \subseteq {<<t, ev>>}
    /\ IF fault # "none"
       THEN /\ tlast' = [op |-> "HandleTunnel", node |-> "remote",
                         target |-> t, event |-> ev, seq |-> q,
                         dup |-> FALSE, err |-> fault]
            /\ UNCHANGED <<tunnels, tpub, tseen>>
       ELSE /\ UpdateNode("remote", t, ev, TRUE)
            /\ tlast' = [op |-> "HandleTunnel", node |-> "remote",
                         target |-> t, event |-> ev, seq |-> q,
                         dup |-> tseen[q] # {},
                         err |-> ApplyEvent(tunnels["remote"], t, ev).err]
            /\ tseen' = [tseen EXCEPT ![q] = {<<t, ev>>}]
    /\ tsteps' = tsteps + 1
    /\ UNCHANGED tconn
    /\ UNCHANGED notTun

\* Handle's loop on a packet whose header cannot be extracted, or whose
\* message id is unexpected: the handler returns the error and the loop
\* closes the connection.
HandleBadPacket ==
    /\ tconn
    /\ tconn' = FALSE
    /\ UNCHANGED <<tunnels, tpub, tlast, tsteps, tseen>>
    /\ UNCHANGED notTun

NextTunnel ==
    \/ \E t \in Targets, ev \in Events : UpdateRoot(t, ev)
    \/ \E q \in SeqIds, t \in Targets, ev \in Events, fault \in Faults :
          HandleTunnel(q, t, ev, fault)
    \/ HandleBadPacket

(***************************************************************************)
(* ServeStatus on one connection that sent Notify: it subscribes a         *)
(* callback to the local proxy's tunnel topic; the proxy calls it, on the  *)
(* publishing goroutine, for every event published.                        *)
(***************************************************************************)

\* Bound of the status model: the number of events published.
MaxPub == 3

\* The socks5.TunnelMessage values the proxy publishes.
TunnelMessages == [target : Targets, event : {EventOpen, EventClose}]

\* int(tm.Event), as the payload carries it.
EventCode(ev) ==
    CASE ev = EventOpen -> 0
      [] ev = EventClose -> 1
      [] OTHER -> 2

\* The packet the callback composes: the TunnelEvent header and the payload
\* of EncodePayloadTunnelEvent(tm.Target, int(tm.Event)).
TunnelPacket(tm) ==
    [id |-> "MessageTunnel", target |-> tm.target,
     operation |-> EventCode(tm.event)]

StatusIdle ==
    /\ spc = "idle"
    /\ sindex = 0
    /\ sreal = -1
    /\ subs = {}
    /\ sconn = [open |-> TRUE, reachable |-> TRUE]
    /\ published = << >>
    /\ sent = << >>
    /\ swait = [tokens |-> 0, blocked |-> FALSE]
    /\ sfails = 0

\* wait <- struct{}{} on the channel of capacity one: the sender blocks
\* when the channel is full.
WaitSend(w) ==
    IF w.tokens < 1 THEN [w EXCEPT !.tokens = @ + 1]
    ELSE [w EXCEPT !.blocked = TRUE]

\* ServeStatus's fail, run when the variable index holds i: the connection
\* is closed, the subscription of index i is cancelled, and wait is sent
\* to.
Fail(i) ==
    /\ sconn' = [sconn EXCEPT !.open = FALSE]
    /\ subs' = subs \ {i}
    /\ swait' = WaitSend(swait)
    /\ sfails' = sfails + 1

\* Another connection sent Notify before this one: its ServeStatus holds
\* the first subscription of the topic.
OtherNotify ==
    /\ spc = "idle"
    /\ subs = {}
    /\ subs' = {0}
    /\ UNCHANGED <<spc, sindex, sreal, sconn, published, sent, swait, sfails>>
    /\ UNCHANGED notSS

\* Handle receives the Notify message and starts ServeStatus.
StartServeStatus ==
    /\ spc = "idle"
    /\ sconn.open
    /\ spc' = "start"
    /\ UNCHANGED <<sindex, sreal, subs, sconn, published, sent, swait, sfails>>
    /\ UNCHANGED notSS

\* ServeStatus up to Proxy.Notify: the header is composed and the callback
\* registered under the next index of the topic.  The index returned is
\* not yet stored in the variable index.
Notify ==
    /\ spc = "start"
    /\ sreal' = Cardinality(subs)
    /\ subs' = subs \cup {Cardinality(subs)}
    /\ spc' = "subscribed"
    /\ UNCHANGED <<sindex, sconn, published, sent, swait, sfails>>
    /\ UNCHANGED notSS

\* TunnelEventHeader or Proxy.Notify returns an error: fail runs with the
\* index ServeStatus holds, and ServeStatus returns.
NotifyFails ==
    /\ spc = "start"
    /\ Fail(sindex)
    /\ spc' = "done"
    /\ UNCHANGED <<sindex, sreal, published, sent>>
    /\ UNCHANGED notSS

\* The assignment index, err = b.Proxy.Notify(...), after which ServeStatus
\* waits on the channel.
StoreIndex ==
    /\ spc = "subscribed"
    /\ sindex' = sreal
    /\ spc' = "waiting"
    /\ UNCHANGED <<sreal, subs, sconn, published, sent, swait, sfails>>
    /\ UNCHANGED notSS

\* <-wait: ServeStatus returns.
WaitReceive ==
    /\ spc = "waiting"
    /\ swait.tokens > 0
    /\ swait' = [swait EXCEPT !.tokens = @ - 1]
    /\ spc' = "done"
    /\ UNCHANGED <<sindex, sreal, subs, sconn, published, sent, sfails>>
    /\ UNCHANGED notSS

\* The proxy publishes tm while the subscription is registered: the
\* callback composes the packet and sends it; when conn.Send returns an
\* error it runs fail, which reads the variable index as it is then, and
\* returns.
Publish(tm) ==
    /\ sreal \in subs
    /\ ~swait.blocked
    /\ Len(published) < MaxPub
    /\ published' = Append(published, tm)
    /\ IF sconn.open /\ sconn.reachable
       THEN /\ sent' = Append(sent, TunnelPacket(tm))
            /\ UNCHANGED <<subs, sconn, swait, sfails>>
       ELSE /\ Fail(sindex)
            /\ UNCHANGED sent
    /\ UNCHANGED <<spc, sindex, sreal>>
    /\ UNCHANGED notSS

\* The peer of the connection goes away: every later Send fails.
PeerUnreachable ==
    /\ spc # "idle"
    /\ sconn.reachable
    /\ sconn' = [sconn EXCEPT !.reachable = FALSE]
    /\ UNCHANGED <<spc, sindex, sreal, subs, published, sent, swait, sfails>>
    /\ UNCHANGED notSS

NextStatus ==
    \/ OtherNotify
    \/ StartServeStatus
    \/ Notify
    \/ NotifyFails
    \/ StoreIndex
    \/ WaitReceive
    \/ \E tm \in TunnelMessages : Publish(tm)
    \/ PeerUnreachable

(***************************************************************************)
(* Socks5.Connect: the proxy dials the target of a client's CONNECT        *)
(* request through its Dialer and answers the client.                      *)
(***************************************************************************)

\* Bound of the proxy model: the clients served.
MaxClients == 2

ClientIds == 1 .. MaxClients

\* The protocol bytes of a SOCKS5 reply (RFC 1928).
socks5Version == 5
socks5RespSuccess == 0
socks5RespHostUnreachable == 4
socks5FieldReserved == 0
socks5IP4 == 1
socks5IP6 == 4

\* tconn.LocalAddr() of the connections the Dialer returns: an IPv4 and an
\* IPv6 address, with ports on both sides of 256.
LocalAddrs ==
    { [ip |-> <<127, 0, 0, 1>>, port |-> 80],
      [ip |-> <<0, 0, 0, 0, 0, 0, 0, 0, 0, 0, 0, 0, 0, 0, 0, 1>>,
       port |-> 1080] }

\* What d.DialContext returns: a connection, an error, or neither.
DialOk == "conn"
DialError == "dial error"
DialNil == "nil conn"
DialOutcomes == {DialOk, DialError, DialNil}

WriteError == "socks5: unable to write connect response"
NilConnError == "socks5: connect returned nil connection"

NoSocks ==
    [pc |-> "idle", target |-> None, buf |-> << >>, dial |-> None,
     addr |-> None, writable |-> TRUE, written |-> << >>,
     tconn |-> FALSE, err |-> None]

SocksIdle == socks = [c \in ClientIds |-> NoSocks]

\* ip.To4(): the four bytes of an IPv4 address, none for an IPv6 one.
To4(ip) == IF Len(ip) = 4 THEN ip ELSE << >>

\* The bnd addr and bnd port appended to the success reply.
BndAddr(addr) ==
    (IF To4(addr.ip) # << >>
     THEN <<socks5IP4>> \o To4(addr.ip)
     ELSE <<socks5IP6>> \o addr.ip)
    \o <<(addr.port \div 256) % 256, addr.port % 256>>

\* conn.Write(buf) on the client's connection: the bytes reach the client
\* when it is still there.
ClientWrite(k, buf) == IF k.writable THEN Append(k.written, buf) ELSE k.written

\* Connect up to the dial: buf holds the version byte.
ConnectStart(c, target) ==
    /\ socks[c].pc = "idle"
    /\ socks' = [socks EXCEPT ![c] =
                    [@ EXCEPT !.pc = "dialing", !.target = target,
                              !.buf = <<socks5Version>>]]
    /\ UNCHANGED notSocks

\* d.DialContext(ctx, "tcp", target) returns.
ConnectDial(c, outcome, addr) ==
    /\ socks[c].pc = "dialing"
    /\ socks' = [socks EXCEPT ![c] =
                    [@ EXCEPT !.pc = "dialed", !.dial = outcome,
                              !.addr = IF outcome = DialOk THEN addr ELSE None]]
    /\ UNCHANGED notSocks

\* The rest of Connect, returning the dial error whatever the write of the
\* reply did.
ConnectReplyIgnoresWrite(c) ==
    LET k == socks[c] IN
    /\ k.pc = "dialed"
    /\ socks' = [socks EXCEPT ![c] =
          IF k.dial = DialError
          THEN LET buf == k.buf \o <<socks5RespHostUnreachable,
                                     socks5FieldReserved>> IN
               [k EXCEPT !.pc = "done", !.buf = buf,
                         !.written = ClientWrite(k, buf),
                         !.err = DialError]
          ELSE IF k.dial = DialNil
          THEN [k EXCEPT !.pc = "done", !.err = NilConnError]
          ELSE LET buf == k.buf \o <<socks5RespSuccess, socks5FieldReserved>>
                                \o BndAddr(k.addr) IN
               [k EXCEPT !.pc = "done", !.buf = buf,
                         !.written = ClientWrite(k, buf),
                         !.tconn = TRUE]]
    /\ UNCHANGED notSocks

\* The rest of Connect.  After a dial error the HostUnreachable reply is
\* written to the client, and Connect returns the error of that write when
\* it failed, the dial error otherwise.  A nil connection without an error
\* ends Connect with no reply.  Otherwise the success reply with the bound
\* address is written, the result of the write ignored, and the connection
\* to the target returned.
ConnectReply(c) ==
    LET k == socks[c] IN
    /\ k.pc = "dialed"
    /\ socks' = [socks EXCEPT ![c] =
          IF k.dial = DialError
          THEN LET buf == k.buf \o <<socks5RespHostUnreachable,
                                     socks5FieldReserved>> IN
               [k EXCEPT !.pc = "done", !.buf = buf,
                         !.written = ClientWrite(k, buf),
                         !.err = IF k.writable THEN DialError ELSE WriteError]
          ELSE IF k.dial = DialNil
          THEN [k EXCEPT !.pc = "done", !.err = NilConnError]
          ELSE LET buf == k.buf \o <<socks5RespSuccess, socks5FieldReserved>>
                                \o BndAddr(k.addr) IN
               [k EXCEPT !.pc = "done", !.buf = buf,
                         !.written = ClientWrite(k, buf),
                         !.tconn = TRUE]]
    /\ UNCHANGED notSocks

\* The client hangs up while Connect runs: a write to it fails from then
\* on.
ClientGone(c) ==
    /\ socks[c].pc \in {"dialing", "dialed"}
    /\ socks[c].writable
    /\ socks' = [socks EXCEPT ![c].writable = FALSE]
    /\ UNCHANGED notSocks

NextSocks ==
    \E c \in ClientIds :
        \/ \E target \in Targets : ConnectStart(c, target)
        \/ \E outcome \in DialOutcomes, addr \in LocalAddrs :
              ConnectDial(c, outcome, addr)
        \/ ConnectReply(c)
        \/ ClientGone(c)

(***************************************************************************)
(* Handle on one connection: the loop reads the packets in the order they  *)
(* arrive and dispatches on the header's message id.  Connect, Disconnect, *)
(* Heartbeat and TunnelEvent are handled inside the loop; Notify and       *)
(* Inspect start ServeStatus and ServeInspect as goroutines.               *)
(***************************************************************************)

\* Bound of the dispatch model: the packets that arrive on the connection.
MaxPkts == 3

MessageConnect == "Connect"
MessageDisconnect == "Disconnect"
MessageHeartbeat == "Heartbeat"
MessageTunnel == "Tunnel"
MessageNotify == "Notify"
MessageInspect == "Inspect"

\* The message ids Handle dispatches.
Dispatched ==
    {MessageConnect, MessageDisconnect, MessageHeartbeat, MessageTunnel,
     MessageNotify, MessageInspect}

\* The ids of the packets that arrive: those dispatched, one that is not
\* (Hello, Node, ...), and none when ExtractHeader fails.
NoHeader == "no header"
Unexpected == "Unexpected"
ArrivingIds == Dispatched \cup {Unexpected, NoHeader}

\* The packets that arrive.  ok: the packet passes ValidatePacket and its
\* payload module is there and decodes (for a heartbeat: and its TTL has
\* not passed); only the handlers look at it.
Arriving ==
    { p \in [id : ArrivingIds, ok : BOOLEAN] :
          p.id \in {MessageNotify, Unexpected, NoHeader} => p.ok }

NoPacket == [n |-> 0, id |-> None, ok |-> TRUE]

HandleIdle ==
    /\ hconn = [kind |-> None, open |-> TRUE]
    /\ hq = << >>
    /\ hpc = "idle"
    /\ hcur = NoPacket
    /\ hdtimer = "none"
    /\ hlog = << >>
    /\ hasync = {}
    /\ harr = 0

\* An effect of the handler of packet p, as the history keeps it.
Effect(p, what) == [n |-> p.n, id |-> p.id, ok |-> p.ok, effect |-> what]

\* The loop is about to read the next packet.
Reading == hpc = "loop" /\ hconn.open /\ hq # << >>

\* go b.Handle(ctx, conn): by Wire on the *Conn it dialed, whose
\* HeartbeatTimer runs, or by ListenAndServe on the connection it accepted,
\* which is no *Conn and has no timer.
HandleStart(kind) ==
    /\ hpc = "idle"
    /\ hpc' = "loop"
    /\ hconn' = [hconn EXCEPT !.kind = kind]
    /\ hdtimer' = IF kind = "wired" THEN "running" ELSE "none"
    /\ UNCHANGED <<hq, hcur, hlog, hasync, harr>>
    /\ UNCHANGED notHandle

\* The peer sends a packet.
Arrive(p) ==
    /\ hpc # "idle"
    /\ hconn.open
    /\ harr < MaxPkts
    /\ harr' = harr + 1
    /\ hq' = Append(hq, [n |-> harr + 1, id |-> p.id, ok |-> p.ok])
    /\ UNCHANGED <<hconn, hpc, hcur, hdtimer, hlog, hasync>>
    /\ UNCHANGED notHandle

\* handler: ExtractHeader fails, or the message id is none of those
\* dispatched: the handler returns the error, the loop closes the
\* connection and Handle returns.
HandleReject ==
    /\ Reading
    /\ Head(hq).id \in {NoHeader, Unexpected}
    /\ hq' = Tail(hq)
    /\ hconn' = [hconn EXCEPT !.open = FALSE]
    /\ hpc' = "ended"
    /\ hlog' = Append(hlog, Effect(Head(hq), "closed"))
    /\ UNCHANGED <<hcur, hdtimer, hasync, harr>>
    /\ UNCHANGED notHandle

\* HandleConnect and HandleDisconnect, run inside the loop: whether the
\* packet is valid or not, the deferred conn.Close() closes the connection
\* the request came on.
HandleRequest ==
    /\ Reading
    /\ Head(hq).id \in {MessageConnect, MessageDisconnect}
    /\ hq' = Tail(hq)
    /\ hconn' = [hconn EXCEPT !.open = FALSE]
    /\ hlog' = Append(hlog, Effect(Head(hq), IF Head(hq).ok THEN "served"
                                                          ELSE "closed"))
    /\ UNCHANGED <<hpc, hcur, hdtimer, hasync, harr>>
    /\ UNCHANGED notHandle

\* The dispatch of a Heartbeat that leaves the HeartbeatTimer running.
HandleHeartbeatKeepsTimer ==
    /\ Reading
    /\ Head(hq).id = MessageHeartbeat
    /\ hq' = Tail(hq)
    /\ IF Head(hq).ok
       THEN /\ hpc' = "hbwait"
            /\ hcur' = Head(hq)
            /\ UNCHANGED <<hconn, hlog, hdtimer>>
       ELSE /\ hconn' = [hconn EXCEPT !.open = FALSE]
            /\ hlog' = Append(hlog, Effect(Head(hq), "closed"))
            /\ UNCHANGED <<hpc, hcur, hdtimer>>
    /\ UNCHANGED <<hasync, harr>>
    /\ UNCHANGED notHandle

\* The dispatch of a Heartbeat as a goroutine: go b.HandleHeartbeat.
HandleHeartbeatAsync ==
    /\ Reading
    /\ Head(hq).id = MessageHeartbeat
    /\ hq' = Tail(hq)
    /\ hasync' = hasync \cup {Head(hq)}
    /\ UNCHANGED <<hconn, hpc, hcur, hdtimer, hlog, harr>>
    /\ UNCHANGED notHandle

\* HandleHeartbeat, run inside the loop, up to its wait: a packet that
\* fails a check closes the connection; otherwise the HeartbeatTimer of a
\* *Conn is stopped and the handler waits for the heartbeat's TTL.
HandleHeartbeat ==
    /\ Reading
    /\ Head(hq).id = MessageHeartbeat
    /\ hq' = Tail(hq)
    /\ IF Head(hq).ok
       THEN /\ hpc' = "hbwait"
            /\ hcur' = Head(hq)
            /\ hdtimer' = IF hconn.kind = "wired" /\ hdtimer = "running"
                          THEN "stopped" ELSE hdtimer
            /\ UNCHANGED <<hconn, hlog>>
       ELSE /\ hconn' = [hconn EXCEPT !.open = FALSE]
            /\ hlog' = Append(hlog, Effect(Head(hq), "closed"))
            /\ UNCHANGED <<hpc, hcur, hdtimer>>
    /\ UNCHANGED <<hasync, harr>>
    /\ UNCHANGED notHandle

\* HandleHeartbeat after its wait: the timer of a *Conn is reset, the reply
\* composed and sent; a failed Send closes the connection.  The handler
\* returns and the loop goes on.
HeartbeatReply ==
    /\ hpc = "hbwait"
    /\ hpc' = "loop"
    /\ hcur' = NoPacket
    /\ hdtimer' = IF hconn.kind = "wired" THEN "running" ELSE hdtimer
    /\ hlog' = Append(hlog, Effect(hcur, IF hconn.open THEN "replied"
                                                      ELSE "closed"))
    /\ UNCHANGED <<hconn, hq, hasync, harr>>
    /\ UNCHANGED notHandle

\* The dispatch of a TunnelEvent that closes a connection that cannot
\* tunnel packets.
HandleTunnelEventCloses ==
    /\ Reading
    /\ Head(hq).id = MessageTunnel
    /\ hq' = Tail(hq)
    /\ hconn' = IF hconn.kind = "wired" THEN hconn
                ELSE [hconn EXCEPT !.open = FALSE]
    /\ hlog' = Append(hlog, Effect(Head(hq),
                  IF hconn.kind # "wired" THEN "closed"
                  ELSE IF Head(hq).ok THEN "updated" ELSE "logged"))
    /\ UNCHANGED <<hpc, hcur, hdtimer, hasync, harr>>
    /\ UNCHANGED notHandle

\* A TunnelEvent packet: on a *Conn HandleTunnel runs inside the loop,
\* updating the remote node, or logging the error of a packet that fails a
\* check; on any other connection the packet is discarded.  The connection
\* is left as it is.
HandleTunnelEvent ==
    /\ Reading
    /\ Head(hq).id = MessageTunnel
    /\ hq' = Tail(hq)
    /\ hlog' = Append(hlog, Effect(Head(hq),
                  IF hconn.kind # "wired" THEN "discarded"
                  ELSE IF Head(hq).ok THEN "updated" ELSE "logged"))
    /\ UNCHANGED <<hconn, hpc, hcur, hdtimer, hasync, harr>>
    /\ UNCHANGED notHandle

\* A Notify or an Inspect packet: go b.ServeStatus, go b.ServeInspect.  The
\* handler returns at once.
HandleServe ==
    /\ Reading
    /\ Head(hq).id \in {MessageNotify, MessageInspect}
    /\ hq' = Tail(hq)
    /\ hasync' = hasync \cup {Head(hq)}
    /\ UNCHANGED <<hconn, hpc, hcur, hdtimer, hlog, harr>>
    /\ UNCHANGED notHandle

\* A goroutine started by the loop runs: ServeStatus subscribes to the
\* proxy; ServeInspect closes the connection when the packet fails a check
\* and subscribes to the requested features otherwise.
ServeRun(p) ==
    /\ p \in hasync
    /\ hasync' = hasync \ {p}
    /\ hconn' = IF p.ok THEN hconn ELSE [hconn EXCEPT !.open = FALSE]
    /\ hlog' = Append(hlog, Effect(p, IF p.ok THEN "subscribed" ELSE "closed"))
    /\ UNCHANGED <<hq, hpc, hcur, hdtimer, harr>>
    /\ UNCHANGED notHandle

\* The HeartbeatTimer's function closes the Conn.
HandleTimerFire ==
    /\ hdtimer = "running"
    /\ hdtimer' = "fired"
    /\ hconn' = [hconn EXCEPT !.open = FALSE]
    /\ UNCHANGED <<hq, hpc, hcur, hlog, hasync, harr>>
    /\ UNCHANGED notHandle

\* The connection is closed: the channel of Consume is closed, the loop
\* ends and Handle returns.
HandleReturn ==
    /\ hpc = "loop"
    /\ ~hconn.open
    /\ hpc' = "ended"
    /\ UNCHANGED <<hconn, hq, hcur, hdtimer, hlog, hasync, harr>>
    /\ UNCHANGED notHandle

NextHandle ==
    \/ \E kind \in {"wired", "accepted"} : HandleStart(kind)
    \/ \E p \in Arriving : Arrive(p)
    \/ HandleReject
    \/ HandleRequest
    \/ HandleHeartbeat
    \/ HeartbeatReply
    \/ HandleTunnelEvent
    \/ HandleServe
    \/ \E p \in hasync : ServeRun(p)
    \/ HandleTimerFire
    \/ HandleReturn

(***************************************************************************)
(* ServeInspect on one connection: for every feature requested it          *)
(* subscribes a callback to the node updates of the network or to the      *)
(* bandwidth topic of the proxy, and waits on a WaitGroup for all of them. *)
(***************************************************************************)

\* Bound of the inspect model: the features of one request.
MaxFeatures == 2

\* Bound of the inspect model: the updates published.
MaxUpdates == 2

MessageNode == "Node"
MessageBandwidth == "Bandwidth"

\* The features ServeInspect serves.
Supported == {MessageNode, MessageBandwidth}

\* The feature lists of the requests: supported features, also the same
\* one more than once, and features that are not supported.
FeatureLists == SeqsUpTo(Supported \cup {"Other"}, MaxFeatures)

\* The calls of serveNode and serveBandwidth one request can make.
Slots == 1 .. MaxFeatures

\* A subscription of ServeInspect: its feature, the index Notify gave it
\* (-1: none was made), the variable index of this call of serveNode or
\* serveBandwidth, whether Notify has returned, and whether its callback
\* has failed.
NoSub ==
    [feature |-> None, real |-> -1, index |-> 0, returned |-> FALSE,
     failed |-> FALSE]

InspectIdle ==
    /\ ipc = "idle"
    /\ ifeat = << >>
    /\ isub = [k \in Slots |-> NoSub]
    /\ ireg = [v \in Supported |-> {}]
    /\ iwg = 0
    /\ iconn = [open |-> TRUE, reachable |-> TRUE]
    /\ iupd = 0
    /\ ipanic = FALSE

\* The k-th subscription ServeInspect made is registered.
Live(k) == isub[k].real >= 0 /\ isub[k].real \in ireg[isub[k].feature]

\* The place of the next subscription of this request.
NextSlot == 1 + Cardinality({k \in Slots : isub[k].real >= 0})

\* The index Notify gives to a new subscription of feature v: one never
\* given before.
FreshIndex(v) ==
    LET given == ireg[v] \cup
                     {isub[k].real : k \in {j \in Slots : isub[j].feature = v}}
    IN  IF given = {} THEN 0
        ELSE 1 + CHOOSE m \in given : \A n \in given : n <= m

\* Another connection's ServeInspect subscribed to the updates of feature
\* v before this one.
InspectOther(v) ==
    /\ ipc = "idle"
    /\ ireg[v] = {}
    /\ ireg' = [ireg EXCEPT ![v] = {0}]
    /\ UNCHANGED <<ipc, ifeat, isub, iwg, iconn, iupd, ipanic>>
    /\ UNCHANGED notInspect

\* ServeInspect up to its loop over the features: a packet that fails a
\* check closes the connection and ServeInspect returns.
InspectStart(ok, features) ==
    /\ ipc = "idle"
    /\ IF ok
       THEN /\ ipc' = "serving"
            /\ ifeat' = features
            /\ UNCHANGED iconn
       ELSE /\ ipc' = "done"
            /\ iconn' = [iconn EXCEPT !.open = FALSE]
            /\ UNCHANGED ifeat
    /\ UNCHANGED <<isub, ireg, iwg, iupd, ipanic>>
    /\ UNCHANGED notInspect

\* No Notify call of the loop is waiting to return.
NonePending == \A k \in Slots : isub[k].real >= 0 => isub[k].returned

\* The loop on the next feature: wg.Add(1) and serveNode or serveBandwidth
\* up to the registration of the callback by Notify; a feature that is not
\* supported is skipped.
ServeFeature ==
    /\ ipc = "serving"
    /\ ifeat # << >>
    /\ NonePending
    /\ ifeat' = Tail(ifeat)
    /\ IF Head(ifeat) \in Supported
       THEN LET v == Head(ifeat) IN
            /\ iwg' = iwg + 1
            /\ isub' = [isub EXCEPT ![NextSlot] =
                           [NoSub EXCEPT !.feature = v, !.real = FreshIndex(v)]]
            /\ ireg' = [ireg EXCEPT ![v] = @ \cup {FreshIndex(v)}]
       ELSE UNCHANGED <<iwg, isub, ireg>>
    /\ UNCHANGED <<ipc, iconn, iupd, ipanic>>
    /\ UNCHANGED notInspect

\* The loop on the next feature when Notify returns an error: no
\* subscription is made, the connection is closed and wg.Done() called.
ServeFeatureFails ==
    /\ ipc = "serving"
    /\ ifeat # << >>
    /\ NonePending
    /\ Head(ifeat) \in Supported
    /\ ifeat' = Tail(ifeat)
    /\ iconn' = [iconn EXCEPT !.open = FALSE]
    /\ UNCHANGED <<ipc, isub, ireg, iwg, iupd, ipanic>>
    /\ UNCHANGED notInspect

\* Notify returns: the assignment index, err = ...Notify(...).
StoreFeatureIndex(k) ==
    /\ ipc = "serving"
    /\ isub[k].real >= 0
    /\ ~isub[k].returned
    /\ isub' = [isub EXCEPT ![k].index = isub[k].real, ![k].returned = TRUE]
    /\ UNCHANGED <<ipc, ifeat, ireg, iwg, iconn, iupd, ipanic>>
    /\ UNCHANGED notInspect

\* The loop is over: wg.Wait().
InspectWait ==
    /\ ipc = "serving"
    /\ ifeat = << >>
    /\ NonePending
    /\ ipc' = "waiting"
    /\ UNCHANGED <<ifeat, isub, ireg, iwg, iconn, iupd, ipanic>>
    /\ UNCHANGED notInspect

\* wg.Wait() returns and so does ServeInspect.
InspectReturn ==
    /\ ipc = "waiting"
    /\ iwg = 0
    /\ ~ipanic
    /\ ipc' = "done"
    /\ UNCHANGED <<ifeat, isub, ireg, iwg, iconn, iupd, ipanic>>
    /\ UNCHANGED notInspect

\* An update is published and the callback of the k-th subscription,
\* which is registered, is called: it composes the packet and sends it;
\* when the Send fails, _fail closes the connection, f cancels the
\* subscription whose index the variable index holds then, and wg.Done()
\* is called, which panics on a counter that is zero already.
PublishUpdate(k) ==
    /\ Live(k)
    /\ ~ipanic
    /\ iupd < MaxUpdates
    /\ iupd' = iupd + 1
    /\ IF iconn.open /\ iconn.reachable
       THEN UNCHANGED <<iconn, ireg, iwg, ipanic, isub>>
       ELSE /\ iconn' = [iconn EXCEPT !.open = FALSE]
            /\ ireg' = [ireg EXCEPT ![isub[k].feature] = @ \ {isub[k].index}]
            /\ isub' = [isub EXCEPT ![k].failed = TRUE]
            /\ iwg' = iwg - 1
            /\ ipanic' = (iwg - 1 < 0)
    /\ UNCHANGED <<ipc, ifeat>>
    /\ UNCHANGED notInspect

\* The peer of the connection goes away: every later Send fails.
InspectPeerGone ==
    /\ ipc # "idle"
    /\ iconn.reachable
    /\ iconn' = [iconn EXCEPT !.reachable = FALSE]
    /\ UNCHANGED <<ipc, ifeat, isub, ireg, iwg, iupd, ipanic>>
    /\ UNCHANGED notInspect

NextInspect ==
    \/ \E v \in Supported : InspectOther(v)
    \/ \E ok \in BOOLEAN, features \in FeatureLists : InspectStart(ok, features)
    \/ ServeFeature
    \/ ServeFeatureFails
    \/ \E k \in Slots : StoreFeatureIndex(k)
    \/ InspectWait
    \/ InspectReturn
    \/ \E k \in Slots : PublishUpdate(k)
    \/ InspectPeerGone

(***************************************************************************)
(* UpdateRoot and its subscription on the bus: Sub(command) registers Run  *)
(* and PostRun and returns a cancel handle.                                *)
(***************************************************************************)

\* Bound of the subscription model: the messages published on the topic.
MaxMsgs == 3

RunError == "update root: unable to recognise payload"
CtxError == "context canceled"

RootIdle ==
    /\ upc = "idle"
    /\ usub = "none"
    /\ upost = << >>
    /\ uruns = << >>
    /\ ucancels = 0
    /\ uctx = FALSE
    /\ uerrc = None
    /\ uret = None
    /\ umsgs = 0

\* The subscription ends with the error err: PostRun(err) is invoked.  In
\* UpdateRoot's PostRun an error is logged and sent on errc, where it
\* waits for UpdateRoot to receive it.
EndSub(err) ==
    /\ usub' = "ended"
    /\ upost' = Append(upost, err)
    /\ uerrc' = IF err # None THEN err ELSE uerrc

\* A cancel handle that ends the subscription every time it is called.
CancelSubAgain ==
    /\ ucancels' = ucancels + 1
    /\ IF usub \in {"live", "ended"} THEN EndSub(None)
       ELSE UNCHANGED <<usub, upost, uerrc>>

\* The cancel handle Sub returned: it ends a live subscription, with no
\* error, and does nothing to one that has ended.
CancelSub ==
    /\ ucancels' = ucancels + 1
    /\ IF usub = "live" THEN EndSub(None)
       ELSE UNCHANGED <<usub, upost, uerrc>>

\* UpdateRoot up to its select: Sub succeeds and cancel is deferred, or Sub
\* returns an error and UpdateRoot returns it.
RootSubscribe(ok) ==
    /\ upc = "idle"
    /\ IF ok
       THEN upc' = "select" /\ usub' = "live" /\ UNCHANGED uret
       ELSE upc' = "returned" /\ uret' = "sub error" /\ UNCHANGED usub
    /\ UNCHANGED <<upost, uruns, ucancels, uctx, uerrc, umsgs>>
    /\ UNCHANGED notRoot

\* What is published on the topic: the proxy's updates, and a value that
\* is no PayloadProxyUpdate.
Unrecognised == [target |-> "none", event |-> "unrecognised"]
RootMessages == TunnelMessages \cup {Unrecognised}

\* A message is published on the topic and the bus invokes Run: a
\* PayloadProxyUpdate updates the LocalNode and Run returns nil; anything
\* else makes Run return an error, which ends the subscription.
RootRun(msg) ==
    /\ usub = "live"
    /\ umsgs < MaxMsgs
    /\ umsgs' = umsgs + 1
    /\ uruns' = Append(uruns, [msg |-> msg, after |-> Len(upost)])
    /\ IF msg # Unrecognised THEN UNCHANGED <<usub, upost, uerrc>>
       ELSE EndSub(RunError)
    /\ UNCHANGED <<upc, ucancels, uctx, uret>>
    /\ UNCHANGED notRoot

\* The context of run is cancelled.
RootContextDone ==
    /\ upc # "idle"
    /\ ~uctx
    /\ uctx' = TRUE
    /\ UNCHANGED <<upc, usub, upost, uruns, ucancels, uerrc, uret, umsgs>>
    /\ UNCHANGED notRoot

\* select, case <-ctx.Done(): cancel() is called.
RootCancel ==
    /\ upc = "select"
    /\ uctx
    /\ CancelSub
    /\ upc' = "cancelled"
    /\ UNCHANGED <<uruns, uctx, uret, umsgs>>
    /\ UNCHANGED notRoot

\* return ctx.Err(), upon which the deferred cancel() runs.
RootReturnCtx ==
    /\ upc = "cancelled"
    /\ CancelSub
    /\ upc' = "returned"
    /\ uret' = CtxError
    /\ UNCHANGED <<uruns, uctx, umsgs>>
    /\ UNCHANGED notRoot

\* select, case err := <-errc: the error PostRun sent is received.
RootReceiveErr ==
    /\ upc = "select"
    /\ uerrc # None
    /\ uerrc' = None
    /\ uret' = uerrc
    /\ upc' = "received"
    /\ UNCHANGED <<usub, upost, uruns, ucancels, uctx, umsgs>>
    /\ UNCHANGED notRoot

\* return err, upon which the deferred cancel() runs.
RootReturnErr ==
    /\ upc = "received"
    /\ CancelSub
    /\ upc' = "returned"
    /\ UNCHANGED <<uruns, uctx, uret, umsgs>>
    /\ UNCHANGED notRoot

NextRoot ==
    \/ \E ok \in BOOLEAN : RootSubscribe(ok)
    \/ \E msg \in RootMessages : RootRun(msg)
    \/ RootContextDone
    \/ RootCancel
    \/ RootReturnCtx
    \/ RootReceiveErr
    \/ RootReturnErr

(***************************************************************************)
(* Run, run and Close: Run starts run in a goroutine and waits for its     *)
(* error, for a stop or for a restart; run starts the four subroutines and *)
(* waits for them.                                                         *)
(***************************************************************************)

\* The callers of Close other than run itself, and the callers of Restart.
Closers == {"api", "signal"}
Restarters == {"api"}

\* The passes of Run's loop: the first and one for every restart.
Iters == 1 .. (1 + Cardinality(Restarters))

\* The subroutines run starts.
Subs == {"ListenAndServe", "Proxy", "UpdateRoot", "TraceNodes"}

StoppedError == "booster: stopped"
SubError == "subroutine failed"

RunIdle ==
    /\ rpc = "idle"
    /\ riter = 0
    /\ rcancel = 0
    /\ rctx = [i \in Iters |-> "none"]
    /\ rclo = [i \in Iters |-> "none"]
    /\ rerr = [i \in Iters |-> None]
    /\ rsub = [i \in Iters |-> [g \in Subs |-> "none"]]
    /\ rwg = [i \in Iters |-> 0]
    /\ rbuf = [i \in Iters |-> << >>]
    /\ rclosed = [i \in Iters |-> FALSE]
    /\ rln = [i \in Iters |-> "none"]
    /\ rclose = [c \in Closers |-> "none"]
    /\ rrest = [r \in Restarters |-> "none"]
    /\ rret = None
    /\ rpanic = FALSE

\* Run is called: the first go run(), and Run waits in its select.
RunStart ==
    /\ rpc = "idle"
    /\ rpc' = "select"
    /\ riter' = 1
    /\ rclo' = [rclo EXCEPT ![1] = "assign"]
    /\ UNCHANGED <<rcancel, rctx, rerr, rsub, rwg, rbuf, rclosed, rln,
                   rclose, rrest, rret, rpanic>>
    /\ UNCHANGED notRun

\* The goroutine of the closure run: it assigns the variables ctx and
\* cancel it shares with Run, and calls b.run, which starts the four
\* goroutines and waits for the first message on its errc.
ClosureStart(i) ==
    /\ ~rpanic
    /\ rclo[i] = "assign"
    /\ rctx' = [rctx EXCEPT ![i] = "live"]
    /\ rcancel' = i
    /\ rsub' = [rsub EXCEPT ![i] = [g \in Subs |-> "spawned"]]
    /\ rclo' = [rclo EXCEPT ![i] = "recv"]
    /\ UNCHANGED <<rpc, riter, rerr, rwg, rbuf, rclosed, rln, rclose,
                   rrest, rret, rpanic>>
    /\ UNCHANGED notRun

\* A goroutine of run is scheduled while its context is live: wg.Add(1),
\* and the subroutine begins; ListenAndServe opens its listener.
SubAdd(i, g) ==
    /\ ~rpanic
    /\ rsub[i][g] = "spawned"
    /\ rctx[i] = "live"
    /\ rsub' = [rsub EXCEPT ![i][g] = "running"]
    /\ rwg' = [rwg EXCEPT ![i] = @ + 1]
    /\ rln' = IF g = "ListenAndServe" THEN [rln EXCEPT ![i] = "open"]
              ELSE rln
    /\ UNCHANGED <<rpc, riter, rcancel, rctx, rclo, rerr, rbuf, rclosed,
                   rclose, rrest, rret, rpanic>>
    /\ UNCHANGED notRun

\* errc <- err of a goroutine of run, on a channel of capacity 4: a send
\* on the closed channel panics.
SubSend(i, g, err) ==
    IF rclosed[i]
    THEN rpanic' = TRUE /\ UNCHANGED <<rsub, rbuf>>
    ELSE /\ rsub' = [rsub EXCEPT ![i][g] = "done"]
         /\ rbuf' = [rbuf EXCEPT ![i] = Append(@, err)]
         /\ UNCHANGED rpanic

\* A goroutine of run is scheduled when its context is cancelled already:
\* wg.Add(1), the subroutine returns without waiting (ListenAndServe
\* closes the listener it opened), the error is sent and wg.Done() called.
SubLate(i, g, failed) ==
    /\ ~rpanic
    /\ rsub[i][g] = "spawned"
    /\ rctx[i] = "cancelled"
    /\ rln' = IF g = "ListenAndServe" THEN [rln EXCEPT ![i] = "closed"]
              ELSE rln
    /\ SubSend(i, g, IF failed THEN SubError ELSE CtxError)
    /\ UNCHANGED <<rpc, riter, rcancel, rctx, rclo, rerr, rwg, rclosed,
                   rclose, rrest, rret>>
    /\ UNCHANGED notRun

\* The subroutine returns, with its own error or, once its context is
\* cancelled, with the context's; ListenAndServe closes its listener as it
\* returns.  The goroutine sends the error and calls wg.Done().
SubReturns(i, g, failed) ==
    /\ rsub[i][g] = "running"
    /\ failed \/ rctx[i] = "cancelled"
    /\ rln' = IF g = "ListenAndServe" THEN [rln EXCEPT ![i] = "closed"]
              ELSE rln
    /\ SubSend(i, g, IF failed THEN SubError ELSE CtxError)
    /\ rwg' = IF rclosed[i] THEN rwg ELSE [rwg EXCEPT ![i] = @ - 1]
    /\ UNCHANGED <<rpc, riter, rcancel, rctx, rclo, rerr, rclosed, rclose,
                   rrest, rret>>
    /\ UNCHANGED notRun

SubFails(i, g) == ~rpanic /\ SubReturns(i, g, TRUE)

SubCancelled(i, g) == ~rpanic /\ SubReturns(i, g, FALSE)

\* run reads the first message of its errc; if its context is not
\* cancelled it calls b.Close(), else it goes on to wg.Wait().
RunFirstError(i) ==
    /\ ~rpanic
    /\ rclo[i] = "recv"
    /\ rbuf[i] # << >>
    /\ rerr' = [rerr EXCEPT ![i] = Head(rbuf[i])]
    /\ rbuf' = [rbuf EXCEPT ![i] = Tail(@)]
    /\ rclo' = [rclo EXCEPT ![i] =
                   IF rctx[i] = "cancelled" THEN "wait" ELSE "close"]
    /\ UNCHANGED <<rpc, riter, rcancel, rctx, rsub, rwg, rclosed, rln,
                   rclose, rrest, rret, rpanic>>
    /\ UNCHANGED notRun

\* wg.Wait() returns when the counter is zero; run returns, its deferred
\* close(errc) runs, and the closure sends run's error on Run's errc.
RunWaitDone(i) ==
    /\ ~rpanic
    /\ rclo[i] = "wait"
    /\ rwg[i] = 0
    /\ rclosed' = [rclosed EXCEPT ![i] = TRUE]
    /\ rclo' = [rclo EXCEPT ![i] = "send"]
    /\ UNCHANGED <<rpc, riter, rcancel, rctx, rerr, rsub, rwg, rbuf, rln,
                   rclose, rrest, rret, rpanic>>
    /\ UNCHANGED notRun

\* Close is called while Run is in progress: the caller sends on b.stop,
\* which has no buffer.
Close(c) ==
    /\ ~rpanic
    /\ rpc \notin {"idle", "returned"}
    /\ rclose[c] = "none"
    /\ rclose' = [rclose EXCEPT ![c] = "sending"]
    /\ UNCHANGED <<rpc, riter, rcancel, rctx, rclo, rerr, rsub, rwg, rbuf,
                   rclosed, rln, rrest, rret, rpanic>>
    /\ UNCHANGED notRun

\* Restart is called while Run is in progress: the caller sends on
\* b.restart, which has no buffer.
Restart(r) ==
    /\ ~rpanic
    /\ rpc \notin {"idle", "returned"}
    /\ rrest[r] = "none"
    /\ rrest' = [rrest EXCEPT ![r] = "sending"]
    /\ UNCHANGED <<rpc, riter, rcancel, rctx, rclo, rerr, rsub, rwg, rbuf,
                   rclosed, rln, rclose, rret, rpanic>>
    /\ UNCHANGED notRun

\* Run calls cancel(): the value the shared variable holds at that time,
\* nil before the first closure has assigned it.
RunCancel ==
    IF rcancel = 0
    THEN rpanic' = TRUE /\ UNCHANGED rctx
    ELSE rctx' = [rctx EXCEPT ![rcancel] = "cancelled"] /\ UNCHANGED rpanic

\* select, case <-b.stop, with a caller of Close as the sender: the caller
\* returns, Run calls cancel() and waits for run's error.
StopFromCaller(c) ==
    /\ ~rpanic
    /\ rpc = "select"
    /\ rclose[c] = "sending"
    /\ rclose' = [rclose EXCEPT ![c] = "returned"]
    /\ RunCancel
    /\ rpc' = "stopwait"
    /\ UNCHANGED <<riter, rcancel, rclo, rerr, rsub, rwg, rbuf, rclosed,
                   rln, rrest, rret>>
    /\ UNCHANGED notRun

\* select, case <-b.stop, with run as the sender: its b.Close() returns
\* and run goes on to wg.Wait().
StopFromRun(i) ==
    /\ ~rpanic
    /\ rpc = "select"
    /\ rclo[i] = "close"
    /\ rclo' = [rclo EXCEPT ![i] = "wait"]
    /\ RunCancel
    /\ rpc' = "stopwait"
    /\ UNCHANGED <<riter, rcancel, rerr, rsub, rwg, rbuf, rclosed, rln,
                   rclose, rrest, rret>>
    /\ UNCHANGED notRun

\* select, case <-b.restart: Run calls cancel() and waits for run's error.
RestartReceived(r) ==
    /\ ~rpanic
    /\ rpc = "select"
    /\ rrest[r] = "sending"
    /\ rrest' = [rrest EXCEPT ![r] = "returned"]
    /\ RunCancel
    /\ rpc' = "restartwait"
    /\ UNCHANGED <<riter, rcancel, rclo, rerr, rsub, rwg, rbuf, rclosed,
                   rln, rclose, rret>>
    /\ UNCHANGED notRun

\* Run receives run's error from the closure, whose deferred cancel()
\* runs.  In the select Run calls cancel() and returns the error; after a
\* stop it returns "booster: stopped"; after a restart it loops and
\* starts run again.
ErrReceived(i) ==
    /\ ~rpanic
    /\ rclo[i] = "send"
    /\ rpc \in {"select", "stopwait", "restartwait"}
    /\ rctx' = [k \in Iters |->
                   IF k = i \/ (rpc = "select" /\ k = rcancel)
                   THEN "cancelled" ELSE rctx[k]]
    /\ IF rpc = "restartwait"
       THEN /\ rpc' = "select"
            /\ riter' = riter + 1
            /\ rclo' = [rclo EXCEPT ![i] = "done", ![riter + 1] = "assign"]
            /\ UNCHANGED rret
       ELSE /\ rpc' = "returned"
            /\ rret' = IF rpc = "select" THEN rerr[i] ELSE StoppedError
            /\ rclo' = [rclo EXCEPT ![i] = "done"]
            /\ UNCHANGED riter
    /\ UNCHANGED <<rcancel, rerr, rsub, rwg, rbuf, rclosed, rln, rclose,
                   rrest, rpanic>>
    /\ UNCHANGED notRun

\* The steps the program takes by itself.
RunProgress ==
    \/ \E i \in Iters : ClosureStart(i)
    \/ \E i \in Iters, g \in Subs : SubAdd(i, g)
    \/ \E i \in Iters, g \in Subs, failed \in BOOLEAN : SubLate(i, g, failed)
    \/ \E i \in Iters, g \in Subs : SubCancelled(i, g)
    \/ \E i \in Iters : RunFirstError(i)
    \/ \E i \in Iters : RunWaitDone(i)
    \/ \E c \in Closers : StopFromCaller(c)
    \/ \E i \in Iters : StopFromRun(i)
    \/ \E r \in Restarters : RestartReceived(r)
    \/ \E i \in Iters : ErrReceived(i)

NextRun ==
    \/ RunStart
    \/ \E i \in Iters, g \in Subs : SubFails(i, g)
    \/ \E c \in Closers : Close(c)
    \/ \E r \in Restarters : Restart(r)
    \/ RunProgress

(***************************************************************************)
(* The reconnect loop of the node package's Booster.Start: the ids the     *)
(* tracer publishes on TopicConnDiscovered are read one by one.            *)
(***************************************************************************)

\* Bound of the reconnect model: the ids the tracer publishes.
MaxDiscovered == 3

\* The nodes the balancer can hold, and the ids the tracer can publish: the
\* last one resolves to no node.
NodeIds == {"n1", "n2"}
DiscoveredIds == NodeIds \cup {"n0"}

\* A node the balancer does not hold.
NoNode == [known |-> FALSE, isActive |-> FALSE, conns |-> 0]

ReconnectIdle ==
    /\ dnodes = [n \in NodeIds |-> NoNode]
    /\ dstream = << >>
    /\ dpc = "range"
    /\ did = None
    /\ dlog = << >>
    /\ dpubs = 0

\* b.GetNode(id): the node, or an error for an id the balancer does not
\* hold.
GetNode(id) ==
    IF id \in NodeIds /\ dnodes[id].known
    THEN [err |-> FALSE, node |-> dnodes[id]]
    ELSE [err |-> TRUE, node |-> NoNode]

\* b.Connect to the node id: a node that is active is refused; otherwise
\* the node is added if need be and UpdateStatus sets IsActive.
ConnectNode(id) ==
    IF dnodes[id].isActive THEN dnodes
    ELSE [dnodes EXCEPT ![id] =
             [known |-> TRUE, isActive |-> TRUE, conns |-> @.conns + 1]]

\* What the loop did with an id, beside what the balancer held for it when
\* the loop read it.
Decision(id, rn, what) ==
    [id |-> id, known |-> ~rn.err, isActive |-> rn.node.isActive,
     what |-> what]

\* The tracer publishes ConnDiscovered(id).
TracerPublish(id) ==
    /\ dpubs < MaxDiscovered
    /\ dpubs' = dpubs + 1
    /\ dstream' = Append(dstream, id)
    /\ UNCHANGED <<dnodes, dpc, did, dlog>>
    /\ UNCHANGED notReconnect

\* A loop that does not look at IsActive.
LoopReceiveAnyNode ==
    /\ dpc = "range"
    /\ dstream # << >>
    /\ dstream' = Tail(dstream)
    /\ LET id == Head(dstream)
           rn == GetNode(id)
       IN  IF rn.err
           THEN /\ dlog' = Append(dlog, Decision(id, rn, "unresolved"))
                /\ UNCHANGED <<dpc, did>>
           ELSE /\ dlog' = Append(dlog, Decision(id, rn, "connect"))
                /\ dpc' = "connect"
                /\ did' = id
    /\ UNCHANGED <<dnodes, dpubs>>
    /\ UNCHANGED notReconnect

\* for i := range stream: the loop reads an id; an id GetNode does not
\* resolve is logged and skipped, a node that is active is skipped, and for
\* any other the loop goes on to Connect.
LoopReceive ==
    /\ dpc = "range"
    /\ dstream # << >>
    /\ dstream' = Tail(dstream)
    /\ LET id == Head(dstream)
           rn == GetNode(id)
       IN  IF rn.err
           THEN /\ dlog' = Append(dlog, Decision(id, rn, "unresolved"))
                /\ UNCHANGED <<dpc, did>>
           ELSE IF rn.node.isActive
           THEN /\ dlog' = Append(dlog, Decision(id, rn, "skipped"))
                /\ UNCHANGED <<dpc, did>>
           ELSE /\ dlog' = Append(dlog, Decision(id, rn, "connect"))
                /\ dpc' = "connect"
                /\ did' = id
    /\ UNCHANGED <<dnodes, dpubs>>
    /\ UNCHANGED notReconnect

\* b.Connect(ctx, "tcp", laddr, raddr) of the loop: the dial fails, or the
\* node is connected; an error is printed and the loop goes on.
LoopConnect(dialed) ==
    /\ dpc = "connect"
    /\ dnodes' = IF dialed THEN ConnectNode(did) ELSE dnodes
    /\ dpc' = "range"
    /\ did' = None
    /\ UNCHANGED <<dstream, dlog, dpubs>>
    /\ UNCHANGED notReconnect

\* A connect command handled for a client (Handle, BoosterCMDConnect):
\* the node is connected by another goroutine.
HandleConnectCommand(id) ==
    /\ ~dnodes[id].isActive
    /\ dnodes' = ConnectNode(id)
    /\ UNCHANGED <<dstream, dpc, did, dlog, dpubs>>
    /\ UNCHANGED notReconnect

\* UpdateStatus's fail: the connection of an active node is closed and the
\* node is deactivated and handed to the tracer.
NodeLost(id) ==
    /\ dnodes[id].isActive
    /\ dnodes' = [dnodes EXCEPT ![id] =
                     [known |-> TRUE, isActive |-> FALSE, conns |-> @.conns - 1]]
    /\ UNCHANGED <<dstream, dpc, did, dlog, dpubs>>
    /\ UNCHANGED notReconnect

NextReconnect ==
    \/ \E id \in DiscoveredIds : TracerPublish(id)
    \/ LoopReceive
    \/ \E dialed \in BOOLEAN : LoopConnect(dialed)
    \/ \E id \in NodeIds : HandleConnectCommand(id)
    \/ \E id \in NodeIds : NodeLost(id)

(***************************************************************************)
(* ListenAndServe: the accept loop of the node, the unbuffered channel on  *)
(* which it reports its error, and what run does with the first error of   *)
(* its subroutines.                                                        *)
(***************************************************************************)

\* Bound of the listener model: the connections that reach the listener.
MaxAccepts == 2

\* The errors of the listener model: network.Listen's, ln.Accept's wrapped
\* in "booster: cannot accept conn", SendHello's, ctx.Err() and the error of
\* another subroutine of run.
ListenErrors == {"listen", "accept", "hello", "ctx", "other"}

ListenIdle ==
    /\ apc = "idle"
    /\ aret = None
    /\ aln = "none"
    /\ agpc = "none"
    /\ agerr = None
    /\ aconns = 0
    /\ ahandled = 0
    /\ afailedAt = 0
    /\ actx = "live"
    /\ abuf = << >>
    /\ arun = "recv"
    /\ arunerr = None
    /\ aother = FALSE

\* ListenAndServe up to the select: network.Listen fails and the error is
\* returned, or the listener is open and the accept goroutine is started.
\* run's goroutine sends what ListenAndServe returns on run's errc.
ListenStart(ok) ==
    /\ apc = "idle"
    /\ IF ok
       THEN /\ aln' = "open"
            /\ agpc' = "accept"
            /\ apc' = "select"
            /\ UNCHANGED <<aret, abuf>>
       ELSE /\ apc' = "returned"
            /\ aret' = "listen"
            /\ abuf' = Append(abuf, "listen")
            /\ UNCHANGED <<aln, agpc>>
    /\ UNCHANGED <<agerr, aconns, ahandled, afailedAt, actx, arun, arunerr, aother>>
    /\ UNCHANGED notListen

\* ln.Accept returns a connection.
Accept ==
    /\ agpc = "accept"
    /\ aln = "open"
    /\ aconns < MaxAccepts
    /\ aconns' = aconns + 1
    /\ agpc' = "hello"
    /\ UNCHANGED <<apc, aret, aln, agerr, ahandled, afailedAt, actx, abuf, arun, arunerr, aother>>
    /\ UNCHANGED notListen

\* ln.Accept returns an error, as it does on a closed listener: the
\* goroutine goes on to send it on errc.
AcceptFails ==
    /\ agpc = "accept"
    /\ agerr' = "accept"
    /\ agpc' = "send"
    /\ UNCHANGED <<apc, aret, aln, aconns, ahandled, afailedAt, actx, abuf, arun, arunerr, aother>>
    /\ UNCHANGED notListen

\* A loop that logs SendHello's error and accepts again.
SendHelloGoesOn(ok) ==
    /\ agpc = "hello"
    /\ IF ok
       THEN /\ ahandled' = ahandled + 1
            /\ UNCHANGED afailedAt
       ELSE /\ afailedAt' = aconns
            /\ UNCHANGED ahandled
    /\ agpc' = "accept"
    /\ UNCHANGED <<apc, aret, aln, agerr, aconns, actx, abuf, arun, arunerr, aother>>
    /\ UNCHANGED notListen

\* b.SendHello on the connection just accepted: on an error the goroutine
\* goes on to send it on errc, otherwise it starts b.Handle on the
\* connection and accepts again. afailedAt keeps how many connections were
\* accepted when SendHello failed (history).
SendHello(ok) ==
    /\ agpc = "hello"
    /\ IF ok
       THEN /\ ahandled' = ahandled + 1
            /\ agpc' = "accept"
            /\ UNCHANGED <<agerr, afailedAt>>
       ELSE /\ agerr' = "hello"
            /\ agpc' = "send"
            /\ afailedAt' = aconns
            /\ UNCHANGED ahandled
    /\ UNCHANGED <<apc, aret, aln, aconns, actx, abuf, arun, arunerr, aother>>
    /\ UNCHANGED notListen

\* select, case err := <-errc: the goroutine's send is received and the
\* goroutine returns; ListenAndServe returns the error, its deferred calls
\* close errc and the listener.
ListenReceive ==
    /\ apc = "select"
    /\ agpc = "send"
    /\ agpc' = "done"
    /\ apc' = "returned"
    /\ aret' = agerr
    /\ aln' = "closed"
    /\ abuf' = Append(abuf, agerr)
    /\ UNCHANGED <<agerr, aconns, ahandled, afailedAt, actx, arun, arunerr, aother>>
    /\ UNCHANGED notListen

\* select, case <-ctx.Done(): the listener is closed and ListenAndServe
\* waits for the goroutine's send.
ListenCtxDone ==
    /\ apc = "select"
    /\ actx = "cancelled"
    /\ aln' = "closed"
    /\ apc' = "draining"
    /\ UNCHANGED <<aret, agpc, agerr, aconns, ahandled, afailedAt, actx, abuf, arun, arunerr, aother>>
    /\ UNCHANGED notListen

\* <-errc after ctx.Done(): whatever the goroutine sends is dropped and
\* ctx.Err() is returned.
ListenDrain ==
    /\ apc = "draining"
    /\ agpc = "send"
    /\ agpc' = "done"
    /\ apc' = "returned"
    /\ aret' = "ctx"
    /\ abuf' = Append(abuf, "ctx")
    /\ UNCHANGED <<aln, agerr, aconns, ahandled, afailedAt, actx, arun, arunerr, aother>>
    /\ UNCHANGED notListen

\* Run's cancel() after a Close or a Restart of the node by somebody else.
CtxCancel ==
    /\ actx = "live"
    /\ actx' = "cancelled"
    /\ UNCHANGED <<apc, aret, aln, agpc, agerr, aconns, ahandled, afailedAt, abuf, arun, arunerr, aother>>
    /\ UNCHANGED notListen

\* Another subroutine of run returns: with an error of its own, or with
\* ctx.Err() once the context is cancelled.
OtherReturns(failed) ==
    /\ ~aother
    /\ IF failed THEN TRUE ELSE actx = "cancelled"
    /\ aother' = TRUE
    /\ abuf' = Append(abuf, IF failed THEN "other" ELSE "ctx")
    /\ UNCHANGED <<apc, aret, aln, agpc, agerr, aconns, ahandled, afailedAt, actx, arun, arunerr>>
    /\ UNCHANGED notListen

\* run: err := <-errc, then b.Close() unless the context is cancelled
\* already.
FirstError ==
    /\ arun = "recv"
    /\ abuf # << >>
    /\ arunerr' = Head(abuf)
    /\ abuf' = Tail(abuf)
    /\ arun' = IF actx = "live" THEN "close" ELSE "wait"
    /\ UNCHANGED <<apc, aret, aln, agpc, agerr, aconns, ahandled, afailedAt, actx, aother>>
    /\ UNCHANGED notListen

\* Run receives the stop that run's b.Close() sends and cancels the context.
\* A Run that cancelled the context already waits for run to return and
\* reads no stop.
StopReceived ==
    /\ arun = "close"
    /\ actx = "live"
    /\ arun' = "wait"
    /\ actx' = "cancelled"
    /\ UNCHANGED <<apc, aret, aln, agpc, agerr, aconns, ahandled, afailedAt, abuf, arunerr, aother>>
    /\ UNCHANGED notListen

NextListen ==
    \/ \E ok \in BOOLEAN : ListenStart(ok)
    \/ Accept
    \/ AcceptFails
    \/ \E ok \in BOOLEAN : SendHello(ok)
    \/ ListenReceive
    \/ ListenCtxDone
    \/ ListenDrain
    \/ CtxCancel
    \/ \E failed \in BOOLEAN : OtherReturns(failed)
    \/ FirstError
    \/ StopReceived

(***************************************************************************)
(* Specifications                                                          *)
(***************************************************************************)

\* The state after construction: an empty packet (packet.New), a Network
\* without Conns (booster.New), and a link just accepted on which Wire has
\* not sent yet. An end of the link has pc "start" (Wire has not sent),
\* "recv" (Handle waits for a packet), "sleep" (HandleHeartbeat waits for
\* the TTL), "closed" (a handler closed the connection) or "ended" (Handle
\* returned); seen is when it last accepted a heartbeat (history).
InitPacket ==
    /\ tagset \in TagSets
    /\ pkt = EmptyPacket
    /\ want = EmptyPacket
    /\ lookup = NoLookup
    /\ wire = <<>>
    /\ decoded = NotDecoded
    /\ ppc = "build"
    /\ repeated = NoRepeat
    /\ conns = [c \in ConnIds |-> NoConn]
    /\ Conns = [k \in Peers |-> 0]
    /\ reqs = [r \in ReqIds |-> NoReq]
    /\ now = 0
    /\ ends = [e \in Ends |-> StartEnd(e)]
    /\ htimer = NoTimer
    /\ net = [e \in Ends |-> <<>>]
    /\ PairIdle
    /\ TunIdle
    /\ StatusIdle
    /\ SocksIdle
    /\ HandleIdle
    /\ InspectIdle
    /\ RootIdle
    /\ RunIdle
    /\ ReconnectIdle
    /\ ListenIdle

InitNet ==
    /\ tagset = TagSetWire
    /\ pkt = EmptyPacket
    /\ want = EmptyPacket
    /\ lookup = NoLookup
    /\ wire = <<>>
    /\ decoded = NotDecoded
    /\ ppc = "build"
    /\ repeated = NoRepeat
    /\ conns = [c \in ConnIds |-> NoConn]
    /\ Conns = [k \in Peers |-> 0]
    /\ reqs = [r \in ReqIds |-> NoReq]
    /\ now = 0
    /\ ends = [e \in Ends |-> StartEnd(e)]
    /\ htimer = NoTimer
    /\ net = [e \in Ends |-> <<>>]
    /\ PairIdle
    /\ TunIdle
    /\ StatusIdle
    /\ SocksIdle
    /\ HandleIdle
    /\ InspectIdle
    /\ RootIdle
    /\ RunIdle
    /\ ReconnectIdle
    /\ ListenIdle

InitHB ==
    /\ now = 0
    /\ ends = [e \in Ends |-> StartEnd(e)]
    /\ htimer = NoTimer
    /\ net = [e \in Ends |-> <<>>]
    /\ tagset = TagSetWire
    /\ pkt = EmptyPacket
    /\ want = EmptyPacket
    /\ lookup = NoLookup
    /\ wire = <<>>
    /\ decoded = NotDecoded
    /\ ppc = "build"
    /\ repeated = NoRepeat
    /\ conns = [c \in ConnIds |-> NoConn]
    /\ Conns = [k \in Peers |-> 0]
    /\ reqs = [r \in ReqIds |-> NoReq]
    /\ PairIdle
    /\ TunIdle
    /\ StatusIdle
    /\ SocksIdle
    /\ HandleIdle
    /\ InspectIdle
    /\ RootIdle
    /\ RunIdle
    /\ ReconnectIdle
    /\ ListenIdle

SpecPacket == InitPacket /\ [][NextPacket]_vars

SpecDamage == InitPacket /\ [][NextDamage]_vars

SpecRepeat == InitPacket /\ [][NextRepeat]_vars

SpecNet == InitNet /\ [][NextNet]_vars

\* A node that wired peer B and then served a Disconnect for it: the Conn
\* is closed and no longer to be traced, and the Network still holds it.
InitRewire ==
    /\ tagset = TagSetWire
    /\ pkt = EmptyPacket
    /\ want = EmptyPacket
    /\ lookup = NoLookup
    /\ wire = <<>>
    /\ decoded = NotDecoded
    /\ ppc = "build"
    /\ repeated = NoRepeat
    /\ conns = [c \in ConnIds |-> IF c = 1 THEN DisconnectedConn ELSE NoConn]
    /\ Conns = [k \in Peers |-> IF k = "B" THEN 1 ELSE 0]
    /\ reqs = [r \in ReqIds |-> NoReq]
    /\ now = 0
    /\ ends = [e \in Ends |-> StartEnd(e)]
    /\ htimer = NoTimer
    /\ net = [e \in Ends |-> <<>>]
    /\ PairIdle
    /\ TunIdle
    /\ StatusIdle
    /\ SocksIdle
    /\ HandleIdle
    /\ InspectIdle
    /\ RootIdle
    /\ RunIdle
    /\ ReconnectIdle
    /\ ListenIdle

SpecRewire == InitRewire /\ [][NextNet]_vars

InitPair ==
    /\ PairIdle
    /\ TunIdle
    /\ StatusIdle
    /\ SocksIdle
    /\ HandleIdle
    /\ InspectIdle
    /\ RootIdle
    /\ RunIdle
    /\ ReconnectIdle
    /\ ListenIdle
    /\ tagset = TagSetWire
    /\ pkt = EmptyPacket
    /\ want = EmptyPacket
    /\ lookup = NoLookup
    /\ wire = <<>>
    /\ decoded = NotDecoded
    /\ ppc = "build"
    /\ repeated = NoRepeat
    /\ conns = [c \in ConnIds |-> NoConn]
    /\ Conns = [k \in Peers |-> 0]
    /\ reqs = [r \in ReqIds |-> NoReq]
    /\ now = 0
    /\ ends = [e \in Ends |-> StartEnd(e)]
    /\ htimer = NoTimer
    /\ net = [e \in Ends |-> <<>>]

SpecPair == InitPair /\ [][NextPair]_vars

InitTunnel ==
    /\ PairIdle
    /\ TunIdle
    /\ StatusIdle
    /\ SocksIdle
    /\ HandleIdle
    /\ InspectIdle
    /\ RootIdle
    /\ RunIdle
    /\ ReconnectIdle
    /\ ListenIdle
    /\ tagset = TagSetWire
    /\ pkt = EmptyPacket
    /\ want = EmptyPacket
    /\ lookup = NoLookup
    /\ wire = <<>>
    /\ decoded = NotDecoded
    /\ ppc = "build"
    /\ repeated = NoRepeat
    /\ conns = [c \in ConnIds |-> NoConn]
    /\ Conns = [k \in Peers |-> 0]
    /\ reqs = [r \in ReqIds |-> NoReq]
    /\ now = 0
    /\ ends = [e \in Ends |-> StartEnd(e)]
    /\ htimer = NoTimer
    /\ net = [e \in Ends |-> <<>>]

SpecTunnel == InitTunnel /\ [][NextTunnel]_vars

InitStatus ==
    /\ PairIdle
    /\ TunIdle
    /\ StatusIdle
    /\ SocksIdle
    /\ HandleIdle
    /\ InspectIdle
    /\ RootIdle
    /\ RunIdle
    /\ ReconnectIdle
    /\ ListenIdle
    /\ tagset = TagSetWire
    /\ pkt = EmptyPacket
    /\ want = EmptyPacket
    /\ lookup = NoLookup
    /\ wire = <<>>
    /\ decoded = NotDecoded
    /\ ppc = "build"
    /\ repeated = NoRepeat
    /\ conns = [c \in ConnIds |-> NoConn]
    /\ Conns = [k \in Peers |-> 0]
    /\ reqs = [r \in ReqIds |-> NoReq]
    /\ now = 0
    /\ ends = [e \in Ends |-> StartEnd(e)]
    /\ htimer = NoTimer
    /\ net = [e \in Ends |-> <<>>]

SpecStatus == InitStatus /\ [][NextStatus]_vars

InitSocks ==
    /\ PairIdle
    /\ TunIdle
    /\ StatusIdle
    /\ SocksIdle
    /\ HandleIdle
    /\ InspectIdle
    /\ RootIdle
    /\ RunIdle
    /\ ReconnectIdle
    /\ ListenIdle
    /\ tagset = TagSetWire
    /\ pkt = EmptyPacket
    /\ want = EmptyPacket
    /\ lookup = NoLookup
    /\ wire = <<>>
    /\ decoded = NotDecoded
    /\ ppc = "build"
    /\ repeated = NoRepeat
    /\ conns = [c \in ConnIds |-> NoConn]
    /\ Conns = [k \in Peers |-> 0]
    /\ reqs = [r \in ReqIds |-> NoReq]
    /\ now = 0
    /\ ends = [e \in Ends |-> StartEnd(e)]
    /\ htimer = NoTimer
    /\ net = [e \in Ends |-> <<>>]

SpecSocks == InitSocks /\ [][NextSocks]_vars

InitHandle ==
    /\ PairIdle
    /\ TunIdle
    /\ StatusIdle
    /\ SocksIdle
    /\ HandleIdle
    /\ InspectIdle
    /\ RootIdle
    /\ RunIdle
    /\ ReconnectIdle
    /\ ListenIdle
    /\ tagset = TagSetWire
    /\ pkt = EmptyPacket
    /\ want = EmptyPacket
    /\ lookup = NoLookup
    /\ wire = <<>>
    /\ decoded = NotDecoded
    /\ ppc = "build"
    /\ repeated = NoRepeat
    /\ conns = [c \in ConnIds |-> NoConn]
    /\ Conns = [k \in Peers |-> 0]
    /\ reqs = [r \in ReqIds |-> NoReq]
    /\ now = 0
    /\ ends = [e \in Ends |-> StartEnd(e)]
    /\ htimer = NoTimer
    /\ net = [e \in Ends |-> <<>>]

SpecHandle == InitHandle /\ [][NextHandle]_vars

InitInspect ==
    /\ PairIdle
    /\ TunIdle
    /\ StatusIdle
    /\ SocksIdle
    /\ HandleIdle
    /\ InspectIdle
    /\ RootIdle
    /\ RunIdle
    /\ ReconnectIdle
    /\ ListenIdle
    /\ tagset = TagSetWire
    /\ pkt = EmptyPacket
    /\ want = EmptyPacket
    /\ lookup = NoLookup
    /\ wire = <<>>
    /\ decoded = NotDecoded
    /\ ppc = "build"
    /\ repeated = NoRepeat
    /\ conns = [c \in ConnIds |-> NoConn]
    /\ Conns = [k \in Peers |-> 0]
    /\ reqs = [r \in ReqIds |-> NoReq]
    /\ now = 0
    /\ ends = [e \in Ends |-> StartEnd(e)]
    /\ htimer = NoTimer
    /\ net = [e \in Ends |-> <<>>]

SpecInspect == InitInspect /\ [][NextInspect]_vars

InitRoot ==
    /\ PairIdle
    /\ TunIdle
    /\ StatusIdle
    /\ SocksIdle
    /\ HandleIdle
    /\ InspectIdle
    /\ RootIdle
    /\ RunIdle
    /\ ReconnectIdle
    /\ ListenIdle
    /\ tagset = TagSetWire
    /\ pkt = EmptyPacket
    /\ want = EmptyPacket
    /\ lookup = NoLookup
    /\ wire = <<>>
    /\ decoded = NotDecoded
    /\ ppc = "build"
    /\ repeated = NoRepeat
    /\ conns = [c \in ConnIds |-> NoConn]
    /\ Conns = [k \in Peers |-> 0]
    /\ reqs = [r \in ReqIds |-> NoReq]
    /\ now = 0
    /\ ends = [e \in Ends |-> StartEnd(e)]
    /\ htimer = NoTimer
    /\ net = [e \in Ends |-> <<>>]

SpecRoot == InitRoot /\ [][NextRoot]_vars

InitRun ==
    /\ PairIdle
    /\ TunIdle
    /\ StatusIdle
    /\ SocksIdle
    /\ HandleIdle
    /\ InspectIdle
    /\ RootIdle
    /\ RunIdle
    /\ ReconnectIdle
    /\ ListenIdle
    /\ tagset = TagSetWire
    /\ pkt = EmptyPacket
    /\ want = EmptyPacket
    /\ lookup = NoLookup
    /\ wire = <<>>
    /\ decoded = NotDecoded
    /\ ppc = "build"
    /\ repeated = NoRepeat
    /\ conns = [c \in ConnIds |-> NoConn]
    /\ Conns = [k \in Peers |-> 0]
    /\ reqs = [r \in ReqIds |-> NoReq]
    /\ now = 0
    /\ ends = [e \in Ends |-> StartEnd(e)]
    /\ htimer = NoTimer
    /\ net = [e \in Ends |-> <<>>]

SpecRun == InitRun /\ [][NextRun]_vars

InitReconnect ==
    /\ PairIdle
    /\ TunIdle
    /\ StatusIdle
    /\ SocksIdle
    /\ HandleIdle
    /\ InspectIdle
    /\ RootIdle
    /\ RunIdle
    /\ ReconnectIdle
    /\ ListenIdle
    /\ tagset = TagSetWire
    /\ pkt = EmptyPacket
    /\ want = EmptyPacket
    /\ lookup = NoLookup
    /\ wire = <<>>
    /\ decoded = NotDecoded
    /\ ppc = "build"
    /\ repeated = NoRepeat
    /\ conns = [c \in ConnIds |-> NoConn]
    /\ Conns = [k \in Peers |-> 0]
    /\ reqs = [r \in ReqIds |-> NoReq]
    /\ now = 0
    /\ ends = [e \in Ends |-> StartEnd(e)]
    /\ htimer = NoTimer
    /\ net = [e \in Ends |-> <<>>]

SpecReconnect == InitReconnect /\ [][NextReconnect]_vars

InitListen ==
    /\ PairIdle
    /\ TunIdle
    /\ StatusIdle
    /\ SocksIdle
    /\ HandleIdle
    /\ InspectIdle
    /\ RootIdle
    /\ RunIdle
    /\ ReconnectIdle
    /\ ListenIdle
    /\ tagset = TagSetWire
    /\ pkt = EmptyPacket
    /\ want = EmptyPacket
    /\ lookup = NoLookup
    /\ wire = <<>>
    /\ decoded = NotDecoded
    /\ ppc = "build"
    /\ repeated = NoRepeat
    /\ conns = [c \in ConnIds |-> NoConn]
    /\ Conns = [k \in Peers |-> 0]
    /\ reqs = [r \in ReqIds |-> NoReq]
    /\ now = 0
    /\ ends = [e \in Ends |-> StartEnd(e)]
    /\ htimer = NoTimer
    /\ net = [e \in Ends |-> <<>>]

SpecListen == InitListen /\ [][NextListen]_vars

\* The goroutines of the program keep taking the steps they can take;
\* nothing obliges a subroutine to fail or anybody to call Close or Restart.
SpecRunFair == InitRun /\ [][NextRun]_vars /\ WF_vars(RunProgress)

SpecHB == InitHB /\ [][NextHB]_vars

\* C1: encoding a packet built with AddModule and decoding the bytes with
\* the same TagSet yields, without error, a packet with the same modules:
\* the same ids and under each id the same encoding and payload.
RoundTrip ==
    ppc = "decoded" => (~decoded.err /\ decoded.packet = pkt)

\* The round trip does succeed when every buffer the decoder hands to a
\* TagReader can hold the tag: an empty PayloadOpeningTag and payloads of at
\* least len(PayloadClosingTag) bytes.
RoundTripWhenBuffersFit ==
    (/\ ppc = "decoded"
     /\ Len(tagset.PayloadOpeningTag) <= 1
     /\ \A id \in PacketIds(pkt) :
            Len(pkt[id].payload) >= Len(tagset.PayloadClosingTag))
        => (~decoded.err /\ decoded.packet = pkt)

\* C2: after AddModule calls, Module(id) returns the module last stored
\* under id, and an error for every id never added.
ModuleReturnsAdded ==
    lookup.id # <<>> =>
        /\ lookup.err <=> lookup.id \notin DOMAIN want
        /\ ~lookup.err => lookup.module = want[lookup.id]

\* A lookup of the header id and of a custom id succeeded and one of a
\* never-added id failed.
ModuleFound ==
    /\ lookup.id \in {ModuleHeader, ModuleCustom}
    /\ ~lookup.err
    /\ lookup.module = want[lookup.id]
    /\ \E id \in ModuleIds : id \notin DOMAIN want

ModuleMissing ==
    /\ lookup.id # <<>>
    /\ lookup.err
    /\ PacketIds(want) # {}

(***************************************************************************)
(* Network claims                                                          *)
(***************************************************************************)

\* A Conn the Network treats as the link to its peer: AddConn accepted it
\* or its node is marked active, and it is not closed.
Installed(c) == conns[c].open /\ (conns[c].added \/ conns[c].isActive)

\* The Network holds a live Conn for peer k.
PeerLive(k) == Conns[k] # 0 /\ conns[Conns[k]].open

\* Some node built for peer k is marked active.
PeerActive(k) == \E c \in ConnIds : conns[c].peer = k /\ conns[c].isActive

\* C3: for every peer id there is at most one installed Conn, whatever
\* Connect, Disconnect, timer expiry and tracer revival have run.
AtMostOneConnPerPeer ==
    \A k \in Peers :
        Cardinality({c \in ConnIds : conns[c].peer = k /\ Installed(c)}) <= 1

\* A peer was wired twice: its first Conn was closed and a later Conn took
\* its place in the Network.
PeerRewired ==
    \E c1, c2 \in ConnIds :
        /\ c1 # c2
        /\ conns[c1].peer = conns[c2].peer
        /\ conns[c1].added /\ ~conns[c1].open
        /\ conns[c2].added /\ conns[c2].open /\ conns[c2].isActive

\* C4: a peer's node is active if and only if the Network holds a live
\* Conn for the peer, in every reachable state.
ActiveIffLive == \A k \in Peers : PeerActive(k) <=> PeerLive(k)

\* C5: when Wire's AddConn finds a live Conn held for the peer, Wire goes to
\* fail with the Network as it was; its fail closes the dialed Conn only,
\* leaves Conns and every other Conn as they were, and Wire returns the
\* error.
DuplicateRejected ==
    [][\A r \in ReqIds :
          /\ (/\ reqs[r].pc = "addconn"
              /\ reqs'[r] # reqs[r]
              /\ PeerLive(reqs[r].peer))
                => /\ reqs'[r].pc = "fail"
                   /\ reqs'[r].why = "addconn"
                   /\ Conns' = Conns
                   /\ conns' = conns
          /\ (/\ reqs[r].pc = "fail"
              /\ reqs[r].why = "addconn"
              /\ reqs'[r] # reqs[r])
                => /\ ~conns'[reqs[r].conn].open
                   /\ Conns' = Conns
                   /\ \A c \in ConnIds : c # reqs[r].conn => conns'[c] = conns[c]
                   /\ reqs'[r].pc \in {"close", "done"}
                   /\ reqs'[r].wire # "ok"
                   /\ reqs'[r].replies = 0]_vars

\* Wire returned AddConn's error: the dialed Conn is closed and the earlier
\* Conn is still held, live and active.
DuplicateClosed ==
    \E r \in ReqIds :
        /\ reqs[r].kind = "connect"
        /\ reqs[r].pc = "close"
        /\ reqs[r].why = "addconn"
        /\ ~conns[reqs[r].conn].open
        /\ Conns[reqs[r].peer] # reqs[r].conn
        /\ PeerLive(reqs[r].peer)
        /\ conns[Conns[reqs[r].peer]].isActive

\* Wire returns an error to HandleConnect in this step.
WireFails(r) ==
    /\ reqs[r].kind = "connect"
    /\ reqs[r].wire = ""
    /\ reqs'[r].wire = "failed"

UnknownPeer(r) ==
    /\ reqs[r].pc = "lookup"
    /\ Conns[reqs[r].peer] = 0
    /\ reqs'[r] # reqs[r]

\* HandleDisconnect returns after it found no Conn for the id.
UnknownPeerReturn(r) ==
    /\ reqs[r].kind = "disconnect"
    /\ reqs[r].why = "unknown"
    /\ reqs'[r] # reqs[r]

\* C10 as stated: a Disconnect for an id the Network holds no Conn for is
\* answered with a packet, the originating connection stays open and the
\* Network is unchanged.
UnknownPeerAnswered ==
    [][\A r \in ReqIds :
          /\ UnknownPeer(r) => reqs'[r].pc = "sendnode"
          /\ UnknownPeerReturn(r) =>
                /\ IF reqs[r].origin = 0 THEN reqs'[r].origOpen
                   ELSE conns'[reqs[r].origin].open
                /\ Conns' = Conns
                /\ conns' = conns]_vars

\* C10 amended: a Disconnect for an id the Network holds no Conn for sends
\* no packet to the originator and closes the originating connection; Conns
\* and every node's toBeTraced and isActive are unchanged, but for the
\* close of the originating connection when that is itself a wired Conn.
UnknownPeerClosesOrigin ==
    [][\A r \in ReqIds :
          /\ UnknownPeer(r) =>
                /\ reqs'[r].why = "unknown"
                /\ reqs'[r].pc = "close"
                /\ reqs'[r].replies = 0
                /\ Conns' = Conns
                /\ conns' = conns
          /\ UnknownPeerReturn(r) =>
                /\ reqs'[r].pc = "done"
                /\ ~reqs'[r].origOpen
                /\ reqs[r].replies = 0
                /\ Conns' = Conns
                /\ conns' = IF reqs[r].origin = 0 THEN conns
                            ELSE CloseConn(conns, reqs[r].origin)]_vars

\* A Disconnect named an id without a Conn while another peer is wired and
\* active.
UnknownPeerSeen ==
    \E r \in ReqIds :
        /\ reqs[r].kind = "disconnect"
        /\ reqs[r].why = "unknown"
        /\ reqs[r].pc = "close"
        /\ \E k \in Peers : PeerLive(k) /\ conns[Conns[k]].isActive

(***************************************************************************)
(* Heartbeat claims                                                        *)
(***************************************************************************)

\* The end e serves the link: its connection is open and its Handle runs.
Serving(e) == ends[e].open /\ ends[e].pc \in {"recv", "sleep"}

\* The end e is on an established link: it serves, and it sent (Wire) or
\* accepted its first heartbeat.
Established(e) ==
    Serving(e) /\ (IF e = "W" THEN TRUE ELSE ends[e].cur # NoHeartbeat)

\* The heartbeats on the link: in flight, or held by a waiting handler.
InFlight(e) == Len(net[e])
Held == Cardinality({e \in Ends : ends[e].pc = "sleep"})

\* C6: the heartbeat timer fires only after 2*HeartbeatTTL without an
\* accepted heartbeat, and an end that got no heartbeat for more than
\* 2*HeartbeatTTL is closed at most HeartbeatTTL later (and as much later
\* as the wake-up and the timer ran late); on both ends.
HeartbeatKeepsLink ==
    /\ htimer.state = "fired" =>
           htimer.deadline - ends["W"].seen >= 2 * HeartbeatTTL
    /\ \A e \in Ends :
           Established(e) => now - ends[e].seen <= 3 * HeartbeatTTL + 2 * MaxLate

\* The same for the end that ran Wire alone.
HeartbeatKeepsWiredEnd ==
    /\ htimer.state = "fired" =>
           htimer.deadline - ends["W"].seen >= 2 * HeartbeatTTL
    /\ Serving("W") => now - ends["W"].seen <= 3 * HeartbeatTTL + 2 * MaxLate

\* C7 as stated: on an established link there is at every moment exactly
\* one heartbeat in flight in each direction.
OneHeartbeatPerDirection ==
    (Serving("W") /\ Serving("S")) => \A e \in Ends : InFlight(e) = 1

\* C7 amended: an established link carries exactly one heartbeat in all, in
\* flight in one direction or held by the handler that waits to answer it;
\* each answer is the only one to the heartbeat it answers and was sent no
\* earlier than that heartbeat's TTL.
OneHeartbeatOnLink ==
    /\ InFlight("W") + InFlight("S") + Held <= 1
    /\ (Serving("W") /\ Serving("S")) => InFlight("W") + InFlight("S") + Held = 1
    /\ \A e \in Ends : \A i \in 1..Len(net[e]) :
           net[e][i].after # -1 =>
               /\ net[e][i].ttl - HeartbeatTTL >= net[e][i].after
               /\ net[e][i].hops > 0
    /\ \A e \in Ends : ends[e].pc = "sleep" => ends[e].cur.ttl >= ends[e].seen

\* The heartbeat went round: the end that ran Wire waits to answer the
\* answer to its answer.
HeartbeatWentRound ==
    /\ ends["W"].pc = "sleep"
    /\ ends["W"].cur.hops >= 3
    /\ Serving("S")

\* C8: a heartbeat whose TTL is before now closes the connection; no
\* heartbeat is sent in answer and the timer is neither stopped nor reset.
ExpiredHeartbeatRejected ==
    [][\A e \in Ends :
          (/\ ends[e].pc = "recv"
           /\ ends[e].open
           /\ net[e] # <<>>
           /\ Head(net[e]).ttl < now
           /\ net'[e] = Tail(net[e]))
              => /\ ~ends'[e].open
                 /\ ends'[e].pc = "closed"
                 /\ net'[Other(e)] = net[Other(e)]
                 /\ htimer' = htimer]_vars

\* The end that ran Wire rejected an expired heartbeat while its timer was
\* running, and the timer still runs.
ExpiredSeen ==
    /\ ends["W"].why = "expired"
    /\ ~ends["W"].open
    /\ htimer.state = "running"
    /\ net["S"] = <<>>

(***************************************************************************)
(* Tracing and manual disconnection                                        *)
(***************************************************************************)

\* C11: after a manual Disconnect of a peer, its node's toBeTraced is false
\* from before the Conn is closed onward, so that the tracer never picks
\* the peer up for revival.
DisconnectedStaysUntraced ==
    \A c \in ConnIds : conns[c].disconnected => ~conns[c].toBeTraced

\* Wire returns a Conn for a peer that was disconnected manually before.
RewireReturns(r) ==
    /\ reqs[r].pc = "traced"
    /\ reqs'[r] # reqs[r]
    /\ \E d \in ConnIds :
          /\ d # reqs[r].conn
          /\ conns[d].peer = reqs[r].peer
          /\ conns[d].disconnected

\* C12: when Wire succeeds for a peer that was disconnected manually, the
\* peer's node is to be traced and active.
RewireRetraces ==
    [][\A r \in ReqIds :
          RewireReturns(r) =>
              /\ conns'[reqs[r].conn].toBeTraced
              /\ conns'[reqs[r].conn].isActive]_vars

\* The Conns the Network treats as links.
InstalledConns == {c \in ConnIds : Installed(c)}

\* HandleDisconnect closes, in this step, a Conn that a Wire returned and
\* that is still live.
DisconnectsWired(r) ==
    /\ reqs[r].pc = "closeconn"
    /\ reqs'[r].pc = "sendnode"
    /\ conns[reqs[r].conn].handled
    /\ conns[reqs[r].conn].open

LinkUp(l) == links[l].open /\ links[l].accepted

\* The Network of node n reports node k as active over a live Conn.
Reports(n, k) ==
    /\ pnet[n][k] # 0
    /\ links[pnet[n][k]].dialer = n
    /\ links[pnet[n][k]].open
    /\ links[pnet[n][k]].isActive

\* C14: after a node wired the other (Wire returned, the connection is
\* up), both Networks hold a Conn for the other node and report it active.
BothSidesInstalled ==
    \A l \in LinkIds :
        (links[l].pc = "wired" /\ LinkUp(l)) =>
            /\ Reports(links[l].dialer, links[l].peer)
            /\ \E m \in LinkIds :
                  /\ pnet[links[l].peer][links[l].dialer] = m
                  /\ links[m].isActive

\* Every Wire has returned, both nodes ran one, and no connection was lost
\* on the accepting side.
BothConnected ==
    /\ \A l \in LinkIds : links[l].pc \in {"idle", "wired", "failed"}
    /\ \A n \in Nodes : \E l \in LinkIds : links[l].dialer = n
    /\ \A l \in LinkIds : links[l].pc # "idle" => links[l].accepted

\* C15: when both nodes ran Connect against each other, exactly one
\* connection between them is up and both Networks hold that one.
OneSurvivor ==
    BothConnected =>
        /\ Cardinality({l \in LinkIds : links[l].pc = "wired" /\ links[l].open}) = 1
        /\ \E l \in LinkIds :
              /\ links[l].open
              /\ pnet["A"]["B"] = l
              /\ pnet["B"]["A"] = l

(***************************************************************************)
(* Tunnel claims                                                           *)
(***************************************************************************)

\* The copies of target t in the tunnel set f; none when f has no such
\* tunnel.
CopiesIn(f, t) == IF t \in DOMAIN f THEN f[t].copies ELSE 0

\* The step handled an event and UpdateNode applied it.
Applied == tsteps' # tsteps /\ tlast'.err = None

\* C16: every tunnel a node holds has copies above zero, never a negative
\* count; an applied Open adds one copy (inserting the tunnel with copies 1
\* when absent), an applied Close takes one away, removing the tunnel
\* exactly when none is left, an Ack leaves the copies alone, and no other
\* tunnel changes.
CopiesNeverNegative ==
    [][/\ \A n \in TNodes : \A t \in DOMAIN tunnels'[n] :
             tunnels'[n][t].copies > 0
       /\ Applied =>
             /\ CopiesIn(tunnels'[tlast'.node], tlast'.target)
                    = CopiesIn(tunnels[tlast'.node], tlast'.target)
                      + (CASE tlast'.event = EventOpen -> 1
                           [] tlast'.event = EventClose -> -1
                           [] OTHER -> 0)
             /\ \A n \in TNodes, t \in Targets :
                   <<n, t>> # <<tlast'.node, tlast'.target>> =>
                       CopiesIn(tunnels'[n], t) = CopiesIn(tunnels[n], t)
      ]_vars

\* A Close took the last copy of the remote node's tunnel and removed it,
\* while a tunnel of the local node holds two copies.
LastCopyClosed ==
    /\ tlast.op = "HandleTunnel"
    /\ tlast.event = EventClose
    /\ tlast.err = None
    /\ tlast.target \notin DOMAIN tunnels["remote"]
    /\ \E t \in DOMAIN tunnels["local"] : tunnels["local"][t].copies = 2

\* C17: handling a TunnelEvent that was already applied under the same
\* sequence id changes nothing: the remote node's tunnel set and copies are
\* those left by the first application.
DuplicateEventIsNoOp ==
    [][(tsteps' # tsteps /\ tlast'.op = "HandleTunnel" /\ tlast'.dup) =>
           tunnels'["remote"] = tunnels["remote"]
      ]_vars

\* The event handed to UpdateNode is invalid for the tunnel set f: a Close
\* or an Ack of a tunnel that f does not hold.
InvalidFor(f, t, ev) == ev \in {EventClose, EventAck} /\ t \notin DOMAIN f

\* C18: a TunnelEvent that is invalid for the remote node's tunnel set
\* ends HandleTunnel with an error and nothing else: the tunnel sets are
\* unchanged, nothing is published to the peers, and the Conn it arrived
\* on stays open.
InvalidEventOnlyLogged ==
    [][(/\ tsteps' # tsteps
        /\ tlast'.op = "HandleTunnel"
        /\ tlast'.err \notin {"validate", "module", "decode"}
        /\ InvalidFor(tunnels["remote"], tlast'.target, tlast'.event)) =>
           /\ tlast'.err = "TunnelStateError"
           /\ tunnels' = tunnels
           /\ tpub' = tpub
           /\ tconn /\ tconn'
      ]_vars

\* An invalid Close was handled after valid events were applied and
\* published, and the Conn is open.
InvalidEventSeen ==
    /\ tlast.op = "HandleTunnel"
    /\ tlast.event = EventClose
    /\ tlast.err = "TunnelStateError"
    /\ tunnels["remote"] # NoTunnels
    /\ tpub # << >>
    /\ tconn

(***************************************************************************)
(* Status claims                                                           *)
(***************************************************************************)

\* The packets sent are those of the first events published, in order.
SentInOrder ==
    /\ Len(sent) <= Len(published)
    /\ \A i \in 1 .. Len(sent) : sent[i] = TunnelPacket(published[i])

\* C19: on a connection that sent Notify every event published since is
\* sent as one TunnelEvent packet, in publication order, as long as no
\* send failed; once one failed the connection is closed, the subscription
\* is cancelled and no further packet is sent.
StatusForwarded ==
    [][/\ SentInOrder'
       /\ sfails' = 0 => Len(sent') = Len(published')
       /\ sfails' > 0 => ~sconn'.open /\ sreal' \notin subs'
       /\ sfails > 0 => sent' = sent
      ]_vars

(***************************************************************************)
(* Proxy claims                                                            *)
(***************************************************************************)

HostUnreachableReply ==
    <<socks5Version, socks5RespHostUnreachable, socks5FieldReserved>>

\* Connect of client c returned after its dial failed.
DialFailed(c) == socks[c].pc = "done" /\ socks[c].dial = DialError

\* A success reply: the reply field, second byte, says succeeded.
IsSuccessReply(buf) == Len(buf) >= 2 /\ buf[2] = socks5RespSuccess

\* C20 as stated: after a failed dial the client has received the
\* HostUnreachable reply and nothing else, and Connect returned the dial
\* error and no connection.
DialFailureAnswered ==
    \A c \in ClientIds :
        DialFailed(c) =>
            /\ socks[c].written = <<HostUnreachableReply>>
            /\ socks[c].err = DialError
            /\ ~socks[c].tconn

\* C20, amended: after a failed dial Connect returns no connection and the
\* client receives no success reply; when the HostUnreachable reply could
\* be written the client received exactly that reply and Connect returned
\* the dial error, and when the write failed the client received nothing
\* and Connect returned the error of the write.
DialFailureOutcome ==
    \A c \in ClientIds :
        DialFailed(c) =>
            /\ ~socks[c].tconn
            /\ \A i \in 1 .. Len(socks[c].written) :
                  ~IsSuccessReply(socks[c].written[i])
            /\ IF socks[c].writable
               THEN /\ socks[c].written = <<HostUnreachableReply>>
                    /\ socks[c].err = DialError
               ELSE /\ socks[c].written = << >>
                    /\ socks[c].err = WriteError

\* One client's dial failed and it got the HostUnreachable reply; the
\* other's failed after it had hung up.
DialFailedBothWays ==
    \E c, d \in ClientIds :
        /\ DialFailed(c) /\ socks[c].writable
        /\ DialFailed(d) /\ ~socks[d].writable

(***************************************************************************)
(* Dispatch claims                                                         *)
(***************************************************************************)

\* The message ids whose handlers validate the packet.
Validating ==
    {MessageConnect, MessageDisconnect, MessageHeartbeat, MessageTunnel,
     MessageInspect}

\* C21: once the handler of a packet that fails validation has run, for
\* any of Connect, Disconnect, Heartbeat, TunnelEvent and Inspect, the
\* connection the packet came on is closed.
FailedValidationCloses ==
    \A i \in 1 .. Len(hlog) :
        (/\ hlog[i].id \in Validating
         /\ ~hlog[i].ok
         /\ hlog[i].effect # "discarded") => ~hconn.open

Served == {MessageNotify, MessageInspect}

Reads == hq # << >> /\ hq' = Tail(hq)

\* C28: a packet whose header cannot be extracted, or whose message id is
\* not dispatched, makes Handle close the connection and return, and a
\* Handle that returned reads nothing more; a TunnelEvent packet on a
\* connection that is no *Conn is discarded, the connection stays open and
\* the loop goes on reading.
RejectsAndDiscards ==
    [][/\ (Reads /\ Head(hq).id \in {NoHeader, Unexpected}) =>
              ~hconn'.open /\ hpc' = "ended"
       /\ hpc = "ended" => hpc' = "ended" /\ ~Reads /\ hlog' \in {hlog} \cup
              {Append(hlog, Effect(p, e)) : p \in hasync,
                                            e \in {"subscribed", "closed"}}
       /\ (Reads /\ Head(hq).id = MessageTunnel /\ hconn.kind = "accepted") =>
              /\ hconn' = hconn /\ hconn'.open
              /\ hpc' = "loop"
              /\ hasync' = hasync
              /\ hlog' = Append(hlog, Effect(Head(hq), "discarded"))
      ]_vars

\* A TunnelEvent packet was discarded, a later packet was read and then
\* one was rejected: Handle returned.
DiscardedThenRejected ==
    /\ Len(hlog) = 3
    /\ hlog[1].effect = "discarded"
    /\ hlog[2].n = 2
    /\ hlog[3].id \in {NoHeader, Unexpected}
    /\ hpc = "ended"

\* C29: while HandleHeartbeat waits for the TTL of the heartbeat it
\* accepted, and until its reply is sent, the loop reads no packet and no
\* handler of the loop has an effect but that reply, and the HeartbeatTimer
\* is not running: it does not close the Conn.
HeartbeatHoldsLoop ==
    [][hpc = "hbwait" =>
          /\ hdtimer # "running"
          /\ ~Reads
          /\ hlog' # hlog =>
                \/ hlog' = Append(hlog, Effect(hcur, "replied"))
                \/ hlog' = Append(hlog, Effect(hcur, "closed"))
                \/ \E p \in hasync, e \in {"subscribed", "closed"} :
                      hlog' = Append(hlog, Effect(p, e))
          /\ hpc' = "hbwait" => hdtimer' = hdtimer
      ]_vars

\* HandleHeartbeat waits on a *Conn whose timer it stopped, while two later
\* packets are waiting to be read.
HeartbeatWaiting ==
    /\ hpc = "hbwait"
    /\ hconn.kind = "wired"
    /\ hconn.open
    /\ hdtimer = "stopped"
    /\ Len(hq) = 2

(***************************************************************************)
(* Inspect claims                                                          *)
(***************************************************************************)

\* C23: ServeInspect has returned only if every subscription it made has
\* ended, and when it waits and all of them have ended nothing keeps it
\* from returning.
InspectReturnsWhenAllEnded ==
    /\ ipc = "done" => \A k \in Slots : ~Live(k)
    /\ (ipc = "waiting" /\ \A k \in Slots : ~Live(k)) =>
           iwg = 0 /\ ~ipanic

(***************************************************************************)
(* Subscription claims                                                     *)
(***************************************************************************)

\* C24: PostRun is invoked exactly once when the subscription ends, and
\* not before, with the error Run returned or with none after a cancel;
\* this holds however often the cancel handle is called; and Run is never
\* invoked after PostRun.
PostRunOnce ==
    /\ usub = "ended" <=> Len(upost) = 1
    /\ Len(upost) <= 1
    /\ Len(upost) = 1 =>
          upost[1] = IF uruns # << >> /\ uruns[Len(uruns)].msg = Unrecognised
                     THEN RunError ELSE None
    /\ \A i \in 1 .. Len(uruns) : uruns[i].after = 0

\* UpdateRoot returned on the cancellation of its context, after Run was
\* invoked, having called the cancel handle twice.
CancelledTwice ==
    /\ upc = "returned"
    /\ uret = CtxError
    /\ ucancels = 2
    /\ uruns # << >>
    /\ upost = <<None>>

(***************************************************************************)
(* Run and Close claims                                                    *)
(***************************************************************************)

\* C25: once the root context is cancelled, the control listener is
\* closed, every subroutine started by run returns and Run returns with an
\* error; Run does not return before the listener is closed and every
\* subroutine run started has returned.
RunReturnsLast ==
    rpc = "returned" =>
        /\ rret # None
        /\ \A i \in 1 .. riter :
              /\ rln[i] # "open"
              /\ \A g \in Subs : rsub[i][g] = "done"

\* C30: after Close is called while Run is in progress, Run eventually
\* returns and every call of Close, run's own included, eventually
\* returns.
CloseCalled == \E c \in Closers : rclose[c] # "none"

AllReturned ==
    /\ rpc = "returned"
    /\ \A c \in Closers : rclose[c] # "sending"
    /\ \A i \in Iters : rclo[i] # "close"

CloseLeadsToReturn == CloseCalled ~> AllReturned

(***************************************************************************)
(* Framing claims                                                          *)
(***************************************************************************)

HasPrefix(s, t) == Len(s) >= Len(t) /\ SubSeq(s, 1, Len(t)) = t

\* The wire format of section 4.A: s begins with n modules, each with its
\* separators and payload tags in place and its payload of the declared
\* size, and then the packet closing tag.
RECURSIVE FramedModules(_, _, _)
FramedModules(s, ts, n) ==
    IF n = 0 THEN HasPrefix(s, ts.PacketClosingTag)
    ELSE LET afterId   == Drop(s, 2)
             atSize    == Drop(afterId, Len(ts.Separator))
             afterSize == Drop(atSize, 2)
             atEnc     == Drop(afterSize, Len(ts.Separator))
             atOpen    == Drop(atEnc, 1)
             atPayload == Drop(atOpen, Len(ts.PayloadOpeningTag))
         IN  IF Len(s) < 2 \/ ~HasPrefix(afterId, ts.Separator) THEN FALSE
             ELSE IF Len(atSize) < 2 \/ ~HasPrefix(afterSize, ts.Separator)
             THEN FALSE
             ELSE IF Len(atEnc) < 1 \/ ~HasPrefix(atOpen, ts.PayloadOpeningTag)
             THEN FALSE
             ELSE LET size    == atSize[1] * 256 + atSize[2]
                      atClose == Drop(atPayload, size)
                  IN  IF Len(atPayload) < size
                         \/ ~HasPrefix(atClose, ts.PayloadClosingTag)
                      THEN FALSE
                      ELSE FramedModules(
                               Drop(atClose, Len(ts.PayloadClosingTag)),
                               ts, n - 1)

\* The stream s carries one packet framed as section 4.A says.
Framed(s, ts) ==
    LET atCount == Drop(s, Len(ts.PacketOpeningTag))
    IN  IF ~HasPrefix(s, ts.PacketOpeningTag) \/ Len(atCount) < 2 THEN FALSE
        ELSE FramedModules(Drop(atCount, 2), ts,
                           atCount[1] * 256 + atCount[2])

\* C26: Decode returns an error, and no decoded packet, when a tag of the
\* stream is missing or out of place or the stream ends before the
\* declared modules and payloads have been read.
BadFramingIsAnError ==
    (ppc = "checked" /\ ~Framed(wire, tagset)) => decoded.err

\* A stream the decoder accepts as the encoder wrote it is refused once it
\* is damaged.
DamagedStreamRefused ==
    /\ ppc = "checked"
    /\ ~Framed(wire, tagset)
    /\ decoded.err
    /\ \E order \in Orders(pkt) : ~Decode(Encode(tagset, pkt, order), tagset).err

(***************************************************************************)
(* Reconnect claims                                                        *)
(***************************************************************************)

\* C27: on ConnDiscovered(id) the loop connects only to a node the
\* balancer holds and that is not active when the loop reads the id: an id
\* that resolves to no node is skipped, a node whose IsActive is true is
\* skipped, and no node ever has a second connection.
ReconnectsOnlyInactive ==
    /\ \A i \in 1 .. Len(dlog) :
          /\ dlog[i].what = "unresolved" <=> ~dlog[i].known
          /\ dlog[i].what = "skipped" <=> (dlog[i].known /\ dlog[i].isActive)
          /\ dlog[i].what = "connect" <=> (dlog[i].known /\ ~dlog[i].isActive)
    /\ dpc = "connect" => did \in NodeIds
    /\ \A n \in NodeIds : dnodes[n].conns <= 1

\* The loop has skipped an unknown id and an active node and has
\* reconnected a node that was lost.
SkippedAndReconnected ==
    /\ \E i, j, k \in 1 .. Len(dlog) :
          /\ dlog[i].what = "unresolved"
          /\ dlog[j].what = "skipped"
          /\ dlog[k].what = "connect"
          /\ dpc = "range"
          /\ dnodes[dlog[k].id].isActive

(***************************************************************************)
(* Claims on run's WaitGroup and on Run's cancel                           *)
(***************************************************************************)

\* C31: run returns, and closes its errc, only after the four subroutines
\* it started have returned, so that none sends on the closed channel.
RunWaitsForSubroutines ==
    \A i \in Iters : rclosed[i] => \A g \in Subs : rsub[i][g] = "done"

\* C32: whenever Run leaves its select and calls cancel(), the shared
\* variable holds the cancel function of the current pass of the loop: it
\* is neither nil nor that of an earlier pass.
CancelOfCurrentPass ==
    [][(rpc = "select" /\ rpc' # "select") => rcancel = riter]_vars

(***************************************************************************)
(* Claims on ServeInspect's WaitGroup                                      *)
(***************************************************************************)

\* C33: wg.Done is called at most once for each wg.Add(1): the counter is
\* never negative, and ServeInspect does not return from wg.Wait while a
\* subscription whose callback has not failed is registered.
DoneOncePerAdd ==
    /\ iwg >= 0
    /\ ~ipanic
    /\ ipc = "done" => \A k \in Slots : Live(k) => isub[k].failed

(***************************************************************************)
(* Claims on ListenAndServe's accept loop                                  *)
(***************************************************************************)

\* C34 as stated: once SendHello failed for an accepted connection, the
\* accept loop accepts nothing more, ListenAndServe returns that very error,
\* and run, having read an error, has the context of the node cancelled.
HelloErrorAlwaysReturned ==
    afailedAt # 0 =>
        /\ agpc \in {"send", "done"}
        /\ aconns = afailedAt
        /\ apc = "returned" => aret = "hello"
        /\ apc = "returned" => (abuf # << >> \/ arun # "recv")
        /\ arun = "wait" => actx = "cancelled"

\* C34 amended: once SendHello failed for an accepted connection, the
\* accept loop accepts nothing more; ListenAndServe returns that error, or
\* ctx.Err() when the context was cancelled before it read the error; what
\* it returns reaches run, and run, having read an error, has the context of
\* the node cancelled.
HelloErrorStopsNode ==
    afailedAt # 0 =>
        /\ agpc \in {"send", "done"}
        /\ aconns = afailedAt
        /\ apc = "returned" =>
               \/ aret = "hello"
               \/ aret = "ctx" /\ actx = "cancelled"
        /\ apc = "returned" => (abuf # << >> \/ arun # "recv")
        /\ arun = "wait" => actx = "cancelled"

\* SendHello failed for the second connection, ListenAndServe returned the
\* error, run read it first, called Close and the context is cancelled.
HelloErrorShutDown ==
    /\ afailedAt = 2
    /\ ahandled = 1
    /\ apc = "returned"
    /\ aret = "hello"
    /\ aln = "closed"
    /\ arunerr = "hello"
    /\ arun = "wait"
    /\ actx = "cancelled"

(***************************************************************************)
(* Claims on streams that carry a module id twice                          *)
(***************************************************************************)

\* ModuleDecoder.Decode reads the module m written under id.
Readable(ts, id, m) == ~ModuleDecode(EncodeModule(ts, id, m), ts).err

====
